---- MODULE Spec2Model ----
(***************************************************************************)
(* Tool registration and invocation in the adapter servers (weather,       *)
(* google-maps, github): the static tool declarations, the registry built  *)
(* at server construction, input validation against the declared schema,   *)
(* and every handler as a function of its validated arguments and of the   *)
(* upstream responses it has received so far.                              *)
(***************************************************************************)
EXTENDS Integers, Sequences, FiniteSets, Bags, TLC

\* ------------------------------------------------------------------------
\* Bounds of the model.
\* ------------------------------------------------------------------------
MaxInvocations == 2

\* ------------------------------------------------------------------------
\* JSON values of a tool call's arguments, tagged by their runtime type.
\* ------------------------------------------------------------------------
Undefined == [t |-> "undefined", v |-> 0]
Str(s)  == [t |-> "string",  v |-> s]
Num(n)  == [t |-> "number",  v |-> n]
Bool(b) == [t |-> "boolean", v |-> b]
Arr(a)  == [t |-> "array",   v |-> a]
Obj(o)  == [t |-> "object",  v |-> o]

\* ------------------------------------------------------------------------
\* The zod schema constructors used by the declarations.
\* ------------------------------------------------------------------------
zString  == [z |-> "string",  opt |-> FALSE, def |-> Undefined]
zNumber  == [z |-> "number",  opt |-> FALSE, def |-> Undefined]
zBoolean == [z |-> "boolean", opt |-> FALSE, def |-> Undefined]
zEnum_anyString(lits) == [z |-> "string", opt |-> FALSE, def |-> Undefined, lits |-> lits]
zEnum(lits)    == [z |-> "enum",   opt |-> FALSE, def |-> Undefined, lits |-> lits]
zArray(of)     == [z |-> "array",  opt |-> FALSE, def |-> Undefined, of |-> of]
zObject(shape) == [z |-> "object", opt |-> FALSE, def |-> Undefined, shape |-> shape]
optional(zt)   == [zt EXCEPT !.opt = TRUE]
default(zt, d) == [zt EXCEPT !.def = d]

\* ------------------------------------------------------------------------
\* The static tool declarations: the second and third argument of every
\* server.tool(name, description, schema, handler) call.
\* ------------------------------------------------------------------------
Description(name) ==
    CASE name = "get_current_weather" ->
        "Get current weather conditions for a location in the United States. Perfect for 'What's the weather like in [US location]?' questions. Covers all US states, territories, and coastal waters."
      [] name = "get_weather_forecast" ->
        "Get multi-day weather forecast for a location in the United States. Perfect for 'What's the forecast for [US location]?' questions. Provides detailed day/night forecasts for up to 7 days."
      [] name = "get_hourly_forecast" ->
        "Get hour-by-hour weather forecast for a location in the United States. Perfect for 'What's the hourly forecast?' or 'Will it rain this afternoon in [US location]?' questions. Provides detailed hourly conditions for up to 48 hours."
      [] name = "get_weather_alerts" ->
        "Get active weather alerts, warnings, watches, and advisories for locations in the United States. Perfect for 'Are there any weather alerts in [US location]?' questions. Covers severe weather, winter storms, heat warnings, flood alerts, and more."
      [] name = "find_weather_stations" ->
        "Find weather observation stations near a location in the United States. Useful for getting station-specific data, finding data sources, or understanding which stations provide weather data for an area. Includes ASOS, AWOS, and other automated weather stations."
      [] name = "maps_geocode" ->
        "Convert an address into geographic coordinates"
      [] name = "maps_reverse_geocode" ->
        "Convert coordinates into an address"
      [] name = "maps_search_places" ->
        "Search for places using Google Places API"
      [] name = "maps_place_details" ->
        "Get detailed information about a specific place"
      [] name = "maps_distance_matrix" ->
        "Calculate travel distance and time for multiple origins and destinations"
      [] name = "maps_elevation" ->
        "Get elevation data for locations on the earth"
      [] name = "maps_directions" ->
        "Get directions between two points"
      [] name = "search_repositories" ->
        "Search for GitHub repositories"
      [] name = "search_code" ->
        "Search for code across GitHub repositories"
      [] name = "search_users" ->
        "Search for GitHub users"
      [] name = "get_issue" ->
        "Get details of a specific issue in a GitHub repository."
      [] name = "add_issue_comment" ->
        "Add a comment to a specific issue in a GitHub repository."
      [] name = "search_issues" ->
        "Search for issues in GitHub repositories."
      [] name = "create_issue" ->
        "Create a new issue in a GitHub repository."
      [] name = "list_issues" ->
        "List issues in a GitHub repository."
      [] name = "update_issue" ->
        "Update an existing issue in a GitHub repository."
      [] name = "get_issue_comments" ->
        "Get comments for a specific issue in a GitHub repository."
      [] name = "get_repository" ->
        "Get detailed information about a GitHub repository"
      [] name = "get_commit" ->
        "Get details for a commit from a GitHub repository"
      [] name = "list_commits" ->
        "Get list of commits of a branch in a GitHub repository"
      [] name = "list_branches" ->
        "List branches in a GitHub repository"
      [] name = "create_or_update_file" ->
        "Create or update a single file in a GitHub repository. If updating, you must provide the SHA of the file you want to update."
      [] name = "create_repository" ->
        "Create a new GitHub repository in your account"
      [] name = "get_file_contents" ->
        "Get the contents of a file from a GitHub repository"
      [] name = "get_repository_tree" ->
        "Get the file structure (tree) of a GitHub repository or a specific directory"
      [] name = "fork_repository" ->
        "Fork a GitHub repository to your account or specified organization"
      [] name = "create_branch" ->
        "Create a new branch in a GitHub repository"
      [] name = "list_tags" ->
        "List git tags in a GitHub repository"
      [] name = "get_tag" ->
        "Get details about a specific git tag in a GitHub repository"
      [] name = "push_files" ->
        "Push multiple files to a GitHub repository in a single commit"
      [] name = "get_pull_request" ->
        "Get details of a specific pull request in a GitHub repository."
      [] name = "update_pull_request" ->
        "Update an existing pull request in a GitHub repository."
      [] name = "list_pull_requests" ->
        "List pull requests in a GitHub repository."
      [] name = "merge_pull_request" ->
        "Merge a pull request in a GitHub repository."
      [] name = "get_pull_request_files" ->
        "Get the files changed in a specific pull request."
      [] name = "get_pull_request_status" ->
        "Get the status of a specific pull request."
      [] name = "update_pull_request_branch" ->
        "Update the branch of a pull request with the latest changes from the base branch (not implemented)"
      [] name = "get_pull_request_comments" ->
        "Get comments for a specific pull request (not implemented)"
      [] name = "create_pull_request" ->
        "Create a new pull request in a GitHub repository."

\* The days parameter of get_weather_forecast.
daysSchema_default5 == default(optional(zNumber), Num(5))
daysSchema == default(optional(zNumber), Num(7))

\* The severity parameter of get_weather_alerts.
severitySchema_anyString == default(optional(zString), Str("all"))
severitySchema ==
    default(optional(zEnum({"all", "extreme", "severe", "moderate", "minor"})), Str("all"))

SchemaOf(name) ==
    CASE name = "get_current_weather" ->
        [location |-> zString]
      [] name = "get_weather_forecast" ->
        [location |-> zString, days |-> daysSchema]
      [] name = "get_hourly_forecast" ->
        [location |-> zString, hours |-> default(optional(zNumber), Num(24))]
      [] name = "get_weather_alerts" ->
        [location |-> zString, severity |-> severitySchema]
      [] name = "find_weather_stations" ->
        [location |-> zString, limit |-> default(optional(zNumber), Num(10))]
      [] name = "maps_geocode" ->
        [address |-> zString]
      [] name = "maps_reverse_geocode" ->
        [latitude |-> zNumber, longitude |-> zNumber]
      [] name = "maps_search_places" ->
        [query |-> zString, location |-> optional(zObject([latitude |-> zNumber, longitude |-> zNumber])), radius |-> optional(zNumber)]
      [] name = "maps_place_details" ->
        [place_id |-> zString]
      [] name = "maps_distance_matrix" ->
        [origins |-> zArray(zString), destinations |-> zArray(zString), mode |-> optional(zEnum({"driving", "walking", "bicycling", "transit"}))]
      [] name = "maps_elevation" ->
        [locations |-> zArray(zObject([latitude |-> zNumber, longitude |-> zNumber]))]
      [] name = "maps_directions" ->
        [origin |-> zString, destination |-> zString, mode |-> optional(zEnum({"driving", "walking", "bicycling", "transit"}))]
      [] name = "search_repositories" ->
        [query |-> zString, per_page |-> default(optional(zNumber), Num(30)), page |-> default(optional(zNumber), Num(1))]
      [] name = "search_code" ->
        [q |-> zString, sort |-> optional(zEnum({"indexed"})), order |-> optional(zEnum({"asc", "desc"})), per_page |-> default(optional(zNumber), Num(30)), page |-> default(optional(zNumber), Num(1))]
      [] name = "search_users" ->
        [q |-> zString, sort |-> optional(zEnum({"followers", "repositories", "joined"})), order |-> optional(zEnum({"asc", "desc"})), per_page |-> default(optional(zNumber), Num(30)), page |-> default(optional(zNumber), Num(1))]
      [] name = "get_issue" ->
        [owner |-> zString, repo |-> zString, issue_number |-> zNumber]
      [] name = "add_issue_comment" ->
        [owner |-> zString, repo |-> zString, issue_number |-> zNumber, body |-> zString]
      [] name = "search_issues" ->
        [q |-> zString, sort |-> optional(zEnum({"comments", "reactions", "reactions-+1", "reactions--1", "reactions-smile", "reactions-thinking_face", "reactions-heart", "reactions-tada", "interactions", "created", "updated"})), order |-> optional(zEnum({"asc", "desc"})), per_page |-> default(optional(zNumber), Num(30)), page |-> default(optional(zNumber), Num(1))]
      [] name = "create_issue" ->
        [owner |-> zString, repo |-> zString, title |-> zString, body |-> optional(zString), assignees |-> optional(zArray(zString)), labels |-> optional(zArray(zString)), milestone |-> optional(zNumber)]
      [] name = "list_issues" ->
        [owner |-> zString, repo |-> zString, state |-> optional(zEnum({"open", "closed", "all"})), labels |-> optional(zArray(zString)), sort |-> optional(zEnum({"created", "updated", "comments"})), direction |-> optional(zEnum({"asc", "desc"})), since |-> optional(zString), per_page |-> default(optional(zNumber), Num(30)), page |-> default(optional(zNumber), Num(1))]
      [] name = "update_issue" ->
        [owner |-> zString, repo |-> zString, issue_number |-> zNumber, title |-> optional(zString), body |-> optional(zString), state |-> optional(zEnum({"open", "closed"})), labels |-> optional(zArray(zString)), assignees |-> optional(zArray(zString)), milestone |-> optional(zNumber)]
      [] name = "get_issue_comments" ->
        [owner |-> zString, repo |-> zString, issue_number |-> zNumber, page |-> default(optional(zNumber), Num(1)), per_page |-> default(optional(zNumber), Num(30))]
      [] name = "get_repository" ->
        [owner |-> zString, repo |-> zString]
      [] name = "get_commit" ->
        [owner |-> zString, repo |-> zString, sha |-> zString]
      [] name = "list_commits" ->
        [owner |-> zString, repo |-> zString, sha |-> optional(zString), per_page |-> default(optional(zNumber), Num(30)), page |-> default(optional(zNumber), Num(1))]
      [] name = "list_branches" ->
        [owner |-> zString, repo |-> zString, per_page |-> default(optional(zNumber), Num(30)), page |-> default(optional(zNumber), Num(1))]
      [] name = "create_or_update_file" ->
        [owner |-> zString, repo |-> zString, path |-> zString, content |-> zString, message |-> zString, branch |-> zString, sha |-> optional(zString)]
      [] name = "create_repository" ->
        [name |-> zString, description |-> optional(zString), private |-> optional(zBoolean), autoInit |-> optional(zBoolean)]
      [] name = "get_file_contents" ->
        [owner |-> zString, repo |-> zString, path |-> zString, branch |-> optional(zString)]
      [] name = "get_repository_tree" ->
        [owner |-> zString, repo |-> zString, path |-> optional(zString), branch |-> optional(zString), recursive |-> default(optional(zBoolean), Bool(FALSE))]
      [] name = "fork_repository" ->
        [owner |-> zString, repo |-> zString, organization |-> optional(zString)]
      [] name = "create_branch" ->
        [owner |-> zString, repo |-> zString, branch |-> zString, from_branch |-> optional(zString)]
      [] name = "list_tags" ->
        [owner |-> zString, repo |-> zString, per_page |-> default(optional(zNumber), Num(30)), page |-> default(optional(zNumber), Num(1))]
      [] name = "get_tag" ->
        [owner |-> zString, repo |-> zString, tag |-> zString]
      [] name = "push_files" ->
        [owner |-> zString, repo |-> zString, branch |-> zString, files |-> zArray(zObject([path |-> zString, content |-> zString])), message |-> zString]
      [] name = "get_pull_request" ->
        [owner |-> zString, repo |-> zString, pullNumber |-> zNumber]
      [] name = "update_pull_request" ->
        [owner |-> zString, repo |-> zString, pullNumber |-> zNumber, title |-> optional(zString), body |-> optional(zString), state |-> optional(zEnum({"open", "closed"})), base |-> optional(zString), maintainer_can_modify |-> optional(zBoolean)]
      [] name = "list_pull_requests" ->
        [owner |-> zString, repo |-> zString, state |-> optional(zEnum({"open", "closed", "all"})), head |-> optional(zString), base |-> optional(zString), sort |-> optional(zEnum({"created", "updated", "popularity", "long-running"})), direction |-> optional(zEnum({"asc", "desc"})), per_page |-> default(optional(zNumber), Num(30)), page |-> default(optional(zNumber), Num(1))]
      [] name = "merge_pull_request" ->
        [owner |-> zString, repo |-> zString, pullNumber |-> zNumber, commit_title |-> optional(zString), commit_message |-> optional(zString), merge_method |-> optional(zEnum({"merge", "squash", "rebase"}))]
      [] name = "get_pull_request_files" ->
        [owner |-> zString, repo |-> zString, pullNumber |-> zNumber, per_page |-> default(optional(zNumber), Num(30)), page |-> default(optional(zNumber), Num(1))]
      [] name = "get_pull_request_status" ->
        [owner |-> zString, repo |-> zString, pullNumber |-> zNumber]
      [] name = "update_pull_request_branch" ->
        [owner |-> zString, repo |-> zString, pullNumber |-> zNumber, expectedHeadSha |-> optional(zString)]
      [] name = "get_pull_request_comments" ->
        [owner |-> zString, repo |-> zString, pullNumber |-> zNumber]
      [] name = "create_pull_request" ->
        [owner |-> zString, repo |-> zString, title |-> zString, body |-> optional(zString), head |-> zString, base |-> zString, draft |-> optional(zBoolean), maintainer_can_modify |-> optional(zBoolean)]

registerWeatherTools ==
    <<"get_current_weather", "get_weather_forecast", "get_hourly_forecast",
      "get_weather_alerts", "find_weather_stations">>

registerMapsTools ==
    <<"maps_geocode", "maps_reverse_geocode", "maps_search_places",
      "maps_place_details", "maps_distance_matrix", "maps_elevation",
      "maps_directions">>

registerSearchTools ==
    <<"search_repositories", "search_code", "search_users">>

registerIssueTools ==
    <<"get_issue", "add_issue_comment", "search_issues", "create_issue",
      "list_issues", "update_issue", "get_issue_comments">>

registerRepositoryTools ==
    <<"get_repository", "get_commit", "list_commits", "list_branches",
      "create_or_update_file", "create_repository", "get_file_contents",
      "get_repository_tree", "fork_repository", "create_branch", "list_tags",
      "get_tag", "push_files">>

registerPullRequestTools ==
    <<"get_pull_request", "update_pull_request", "list_pull_requests",
      "merge_pull_request", "get_pull_request_files", "get_pull_request_status",
      "update_pull_request_branch", "get_pull_request_comments",
      "create_pull_request">>

Servers == {"weather", "maps", "github"}

\* The server.tool calls of each server's construction routine, in order.
createStatelessServer(s) ==
    CASE s = "weather" -> registerWeatherTools
      [] s = "maps"    -> registerMapsTools
      [] s = "github"  -> registerSearchTools \o registerIssueTools
                            \o registerRepositoryTools \o registerPullRequestTools

\* The credential each server takes from its configuration (the weather
\* server takes none).
ConfigCredential(s) ==
    CASE s = "weather" -> "none"
      [] s = "maps"    -> "apiKey"
      [] s = "github"  -> "githubPersonalAccessToken"

ToolDefinition(name) ==
    [name |-> name, description |-> Description(name),
     inputSchema |-> SchemaOf(name), handler |-> name]

\* ------------------------------------------------------------------------
\* Text: a string is a sequence of pieces, so that a prefix can be told
\* from the rest.
\* ------------------------------------------------------------------------
ErrorPrefix == "Error: "

\* ------------------------------------------------------------------------
\* Tool Registry: an ordered collection of tool definitions.
\* ------------------------------------------------------------------------
Names(reg) == {reg[k].name : k \in 1..Len(reg)}

Lookup(reg, name) == reg[CHOOSE k \in 1..Len(reg) : reg[k].name = name]

\* register: refuses a name that is already registered, else appends.
register_unchecked(reg, def) ==
    [ok |-> TRUE, error |-> "none", registry |-> Append(reg, def)]

register(reg, def) ==
    IF def.name \in Names(reg)
    THEN [ok |-> FALSE, error |-> "DuplicateToolError", registry |-> reg]
    ELSE [ok |-> TRUE, error |-> "none", registry |-> Append(reg, def)]

\* list handing out the stored definitions, handlers included.
list_withHandlers(reg) == reg

\* list: the (name, description, inputSchema) triples in registration order.
list(reg) ==
    [k \in 1..Len(reg) |->
        [name |-> reg[k].name, description |-> reg[k].description,
         inputSchema |-> reg[k].inputSchema]]

\* ------------------------------------------------------------------------
\* Validation of a raw input against a declared schema.
\* ------------------------------------------------------------------------
RECURSIVE Accepts(_, _)
Accepts(zt, val) ==
    CASE zt.z = "string"  -> val.t = "string"
      [] zt.z = "number"  -> val.t = "number"
      [] zt.z = "boolean" -> val.t = "boolean"
      [] zt.z = "enum"    -> val.t = "string" /\ val.v \in zt.lits
      [] zt.z = "array"   ->
            /\ val.t = "array"
            /\ \A k \in 1..Len(val.v) : Accepts(zt.of, val.v[k])
      [] zt.z = "object"  ->
            /\ val.t = "object"
            /\ \A f \in DOMAIN zt.shape :
                  IF f \in DOMAIN val.v
                  THEN Accepts(zt.shape[f], val.v[f])
                  ELSE zt.shape[f].opt

Present(raw, p) == p \in DOMAIN raw /\ raw[p] # Undefined

\* The declared parameters the raw input gets wrong.
Offending(schema, raw) ==
    {p \in DOMAIN schema :
        IF Present(raw, p) THEN ~Accepts(schema[p], raw[p]) ELSE ~schema[p].opt}

Expectation(zt, raw, p) == IF Present(raw, p) THEN zt.z ELSE "required"

\* validate refusing a raw input that has a field the schema does not
\* declare.
validate_strict(schema, raw) ==
    LET bad == Offending(schema, raw) IN
    IF DOMAIN raw \ DOMAIN schema # {}
    THEN [ok |-> FALSE, message |-> <<"Invalid arguments: ", "unrecognized key">>,
          args |-> <<>>]
    ELSE IF bad # {}
    THEN LET p == CHOOSE q \in bad : TRUE IN
         [ok |-> FALSE,
          message |-> <<"Invalid arguments: ", p, ": expected ",
                        Expectation(schema[p], raw, p)>>,
          args |-> <<>>]
    ELSE [ok |-> TRUE, message |-> <<>>,
          args |-> [p \in DOMAIN schema |->
                       IF Present(raw, p) THEN raw[p] ELSE schema[p].def]]

\* validate: a failure naming one offending parameter and the expectation,
\* or the parameter record the handler gets: declared parameters only,
\* defaults substituted for the absent ones.
validate(schema, raw) ==
    LET bad == Offending(schema, raw) IN
    IF bad # {}
    THEN LET p == CHOOSE q \in bad : TRUE IN
         [ok |-> FALSE,
          message |-> <<"Invalid arguments: ", p, ": expected ",
                        Expectation(schema[p], raw, p)>>,
          args |-> <<>>]
    ELSE [ok |-> TRUE, message |-> <<>>,
          args |-> [p \in DOMAIN schema |->
                       IF Present(raw, p) THEN raw[p] ELSE schema[p].def]]

\* ------------------------------------------------------------------------
\* parseLocation.  A location string is looked up as its characters, and
\* the pattern /^(-?\d+\.?\d*),\s*(-?\d+\.?\d*)$/ is run over them.
\* ------------------------------------------------------------------------
Chars(s) ==
    CASE s = "40.7128,-74.0060" ->
            <<"4","0",".","7","1","2","8",",","-","7","4",".","0","0","6","0">>
      [] s = "40.7, -74" -> <<"4","0",".","7",","," ","-","7","4">>
      [] s = "New York, NY" ->
            <<"N","e","w"," ","Y","o","r","k",","," ","N","Y">>
      [] s = "CA" -> <<"C","A">>
      [] s = "ca" -> <<"c","a">>
      [] OTHER -> <<s>>

Digits == {"0","1","2","3","4","5","6","7","8","9"}
At(cs, i) == IF i \in 1..Len(cs) THEN cs[i] ELSE ""

RECURSIVE SkipWhile(_, _, _)
SkipWhile(cs, i, set) ==
    IF At(cs, i) \in set THEN SkipWhile(cs, i + 1, set) ELSE i

\* -?\d+\.?\d* from position i: the position after the match, 0 for none.
ScanNumber(cs, i) ==
    LET i1 == IF At(cs, i) = "-" THEN i + 1 ELSE i
        i2 == SkipWhile(cs, i1, Digits)
        i3 == IF At(cs, i2) = "." THEN i2 + 1 ELSE i2
    IN IF i2 = i1 THEN 0 ELSE SkipWhile(cs, i3, Digits)

Sub(cs, from, to) == [k \in 1..(to - from) |-> cs[from + k - 1]]

RECURSIVE StripLeadingZeros(_)
StripLeadingZeros(ds) ==
    IF Len(ds) > 1 /\ ds[1] = "0" THEN StripLeadingZeros(Tail(ds)) ELSE ds

RECURSIVE StripTrailingZeros(_)
StripTrailingZeros(ds) ==
    IF Len(ds) > 0 /\ ds[Len(ds)] = "0"
    THEN StripTrailingZeros(SubSeq(ds, 1, Len(ds) - 1)) ELSE ds

\* Number.parseFloat of a matched group, kept as the decimal text that the
\* number prints as in a template literal.
parseFloat(cs) ==
    LET neg  == At(cs, 1) = "-"
        body == IF neg THEN Tail(cs) ELSE cs
        dot  == SkipWhile(body, 1, Digits)
        int  == StripLeadingZeros(Sub(body, 1, dot))
        frac == StripTrailingZeros(Sub(body, dot + 1, Len(body) + 1))
        zero == int = <<"0">> /\ frac = <<>>
    IN (IF neg /\ ~zero THEN <<"-">> ELSE <<>>)
         \o int \o (IF frac = <<>> THEN <<>> ELSE <<".">> \o frac)

\* parseLocation answering 0,0 for a string that is not coordinates.
parseLocation_lenient(location) ==
    LET cs == Chars(location)
        e1 == ScanNumber(cs, 1)
        s2 == SkipWhile(cs, e1 + 1, {" "})
        e2 == ScanNumber(cs, s2)
    IN IF e1 # 0 /\ At(cs, e1) = "," /\ e2 = Len(cs) + 1
       THEN [ok |-> TRUE,
             latitude  |-> parseFloat(Sub(cs, 1, e1)),
             longitude |-> parseFloat(Sub(cs, s2, e2)),
             message |-> <<>>]
       ELSE [ok |-> TRUE, latitude |-> <<"0">>, longitude |-> <<"0">>, message |-> <<>>]

parseLocation(location) ==
    LET cs == Chars(location)
        e1 == ScanNumber(cs, 1)
        s2 == SkipWhile(cs, e1 + 1, {" "})
        e2 == ScanNumber(cs, s2)
    IN IF e1 # 0 /\ At(cs, e1) = "," /\ e2 = Len(cs) + 1
       THEN [ok |-> TRUE,
             latitude  |-> parseFloat(Sub(cs, 1, e1)),
             longitude |-> parseFloat(Sub(cs, s2, e2)),
             message |-> <<>>]
       ELSE [ok |-> FALSE, latitude |-> <<>>, longitude |-> <<>>,
             message |->
               <<"Location parsing not yet implemented for \"", location,
                 "\". Please provide coordinates in \"latitude,longitude\" format (e.g., \"40.7128,-74.0060\")">>]

\* ------------------------------------------------------------------------
\* Upstream requests and their outcomes.
\* ------------------------------------------------------------------------
Endpoint(kind, url) == [kind |-> kind, url |-> url]
NoEndpoint == Endpoint("none", <<>>)

\* What one upstream request comes back with: a response with a status
\* code and a body, or a transport failure (the request promise rejects).
Ok(d)           == [k |-> "ok", code |-> 200, data |-> d]
StatusText(c) ==
    CASE c = 404 -> "Not Found"
      [] c = 403 -> "Forbidden"
      [] c = 500 -> "Internal Server Error"
      [] c = 422 -> "Unprocessable Entity"
      [] c = 503 -> "Service Unavailable"
      [] OTHER -> ""

\* A non-2xx response: its status code and its reason phrase.
HttpStatus(c)   ==
    [k |-> "status", code |-> c, data |-> <<>>, statusText |-> <<StatusText(c)>>]
NetworkFailure  == [k |-> "network", code |-> 0, data |-> <<>>]

\* A raised condition.
Error(msg) == [isError |-> TRUE, message |-> msg]
NoError    == [isError |-> FALSE, message |-> <<>>]

\* The error a rejected fetch carries.
FetchFailed == Error(<<"fetch", " failed">>)
includes(msg, piece) == \E k \in 1..Len(msg) : msg[k] = piece

\* What a handler does next, given the responses it has had: issue a call,
\* return a text, or raise.
Call(ep) ==
    [op |-> "call", ep |-> ep, text |-> <<>>, err |-> NoError, caught |-> FALSE]
Return(text) ==
    [op |-> "return", ep |-> NoEndpoint, text |-> text, err |-> NoError, caught |-> FALSE]
Throw(e) ==
    [op |-> "throw", ep |-> NoEndpoint, text |-> <<>>, err |-> e, caught |-> FALSE]
\* The return of a catch block.
Caught(text) == [Return(text) EXCEPT !.caught = TRUE]

\* One awaited sub-call of a handler: its value, or the error it raises.
Value(d)  == [ok |-> TRUE, data |-> d, err |-> NoError]
Raise(e)  == [ok |-> FALSE, data |-> <<>>, err |-> e]

\* ------------------------------------------------------------------------
\* Weather server.
\* ------------------------------------------------------------------------
weatherApiRequestBody(out) ==
    CASE out.k = "network" -> Raise(FetchFailed)
      [] out.k = "status" /\ out.code = 404 ->
            Raise(Error(<<"Location not found or no data available">>))
      [] out.k = "status" /\ out.code = 500 ->
            Raise(Error(<<"Weather service temporarily unavailable">>))
      [] out.k = "status" ->
            Raise(Error(<<"Weather API error: ", ToString(out.code), " ">>
                        \o out.statusText))
      [] OTHER -> Value(out.data)

\* weatherApiRequest: the request, and the catch that rewords an error
\* whose message mentions "fetch".
weatherApiRequest(out) ==
    LET r == weatherApiRequestBody(out) IN
    IF ~r.ok /\ r.err.isError /\ includes(r.err.message, "fetch")
    THEN Raise(Error(<<"Unable to connect to weather service. Please check your internet connection.">>))
    ELSE r

PointsEndpoint(coords) ==
    Endpoint("points", <<"/points/">> \o coords.latitude \o <<",">> \o coords.longitude)

GridEndpoint(pointData, kind, suffix) ==
    Endpoint(kind, <<"/gridpoints/", pointData.gridId, "/", ToString(pointData.gridX),
                     ",", ToString(pointData.gridY)>> \o suffix)

ObservationEndpoint(station) ==
    Endpoint("observation", <<"/stations/", station, "/observations/latest">>)

\* getPointMetadata falling back to an empty grid when its request fails.
getPointMetadata_fallback(out) ==
    LET r == weatherApiRequest(out) IN
    IF r.ok THEN Value(r.data.properties)
    ELSE Value([gridId |-> "", gridX |-> 0, gridY |-> 0])

\* getPointMetadata applied to the outcome of its request.
getPointMetadata(out) ==
    LET r == weatherApiRequest(out) IN
    IF r.ok THEN Value(r.data.properties) ELSE r

toLocaleString(t) == <<"toLocaleString(", t, ")">>

LocationLine(coords) ==
    <<"**Location:** ">> \o coords.latitude \o <<", ">> \o coords.longitude \o <<"\n">>

\* slice that stops one element early.
slice_short(seq, n) ==
    LET end == IF n < 0 THEN (IF Len(seq) + n < 0 THEN 0 ELSE Len(seq) + n)
               ELSE (IF n > Len(seq) THEN Len(seq) ELSE n)
    IN SubSeq(seq, 1, end - 1)

\* Array.prototype.slice(0, n).
slice(seq, n) ==
    LET end == IF n < 0 THEN (IF Len(seq) + n < 0 THEN 0 ELSE Len(seq) + n)
               ELSE (IF n > Len(seq) THEN Len(seq) ELSE n)
    IN SubSeq(seq, 1, end)

RECURSIVE Concat(_)
Concat(seqs) == IF seqs = <<>> THEN <<>> ELSE Head(seqs) \o Concat(Tail(seqs))

\* The catch of the weather handlers.
WeatherCatch(step) ==
    IF step.op = "throw"
    THEN Caught(<<ErrorPrefix>> \o
                (IF step.err.isError THEN step.err.message ELSE <<"Unknown error">>))
    ELSE step

\* The temperature and conditions lines of the current weather (the
\* remaining optional readings are formatted the same way).
ObservationLines(obs) ==
    (IF obs.temperature.hasValue
     THEN <<"**Temperature:** ", "toFixed1(", ToString(obs.temperature.value),
            " * 9 / 5 + 32)", "°F (", ToString(obs.temperature.value), "°C)\n">>
     ELSE <<>>)
    \o (IF obs.textDescription # ""
        THEN <<"**Conditions:** ", obs.textDescription, "\n">> ELSE <<>>)

\* get_current_weather reading the last listed station.
get_current_weather_body_lastStation(args, log) ==
    LET coords == parseLocation(args.location.v) IN
    IF ~coords.ok THEN Throw(Error(coords.message))
    ELSE IF Len(log) = 0 THEN Call(PointsEndpoint(coords))
    ELSE LET pointData == getPointMetadata(log[1].out) IN
    IF ~pointData.ok THEN Throw(pointData.err)
    ELSE IF Len(log) = 1 THEN Call(GridEndpoint(pointData.data, "stations", <<"/stations">>))
    ELSE LET stationsData == weatherApiRequest(log[2].out) IN
    IF ~stationsData.ok THEN Throw(stationsData.err)
    ELSE IF ~stationsData.data.hasFeatures \/ Len(stationsData.data.features) = 0
    THEN Throw(Error(<<"No weather stations found for this location">>))
    ELSE LET nearestStation == stationsData.data.features[Len(stationsData.data.features)]
                                .properties.stationIdentifier IN
    IF Len(log) = 2 THEN Call(ObservationEndpoint(nearestStation))
    ELSE LET observationData == weatherApiRequest(log[3].out) IN
    IF ~observationData.ok THEN Throw(observationData.err)
    ELSE LET obs == observationData.data.properties IN
         Return(<<"# Current Weather\n\n">> \o LocationLine(coords)
                \o <<"**Station:** ", nearestStation, "\n", "**Observed:** ">>
                \o toLocaleString(obs.timestamp) \o <<"\n\n">>
                \o ObservationLines(obs))

get_current_weather_body(args, log) ==
    LET coords == parseLocation(args.location.v) IN
    IF ~coords.ok THEN Throw(Error(coords.message))
    ELSE IF Len(log) = 0 THEN Call(PointsEndpoint(coords))
    ELSE LET pointData == getPointMetadata(log[1].out) IN
    IF ~pointData.ok THEN Throw(pointData.err)
    ELSE IF Len(log) = 1 THEN Call(GridEndpoint(pointData.data, "stations", <<"/stations">>))
    ELSE LET stationsData == weatherApiRequest(log[2].out) IN
    IF ~stationsData.ok THEN Throw(stationsData.err)
    ELSE IF ~stationsData.data.hasFeatures \/ Len(stationsData.data.features) = 0
    THEN Throw(Error(<<"No weather stations found for this location">>))
    ELSE LET nearestStation == stationsData.data.features[1].properties.stationIdentifier IN
    IF Len(log) = 2 THEN Call(ObservationEndpoint(nearestStation))
    ELSE LET observationData == weatherApiRequest(log[3].out) IN
    IF ~observationData.ok THEN Throw(observationData.err)
    ELSE LET obs == observationData.data.properties IN
         Return(<<"# Current Weather\n\n">> \o LocationLine(coords)
                \o <<"**Station:** ", nearestStation, "\n", "**Observed:** ">>
                \o toLocaleString(obs.timestamp) \o <<"\n\n">>
                \o ObservationLines(obs))

get_current_weather(args, log) == WeatherCatch(get_current_weather_body(args, log))

ForecastPeriod(period) ==
    <<"## ", period.name, "\n\n",
      "**Temperature:** ", ToString(period.temperature), "°", period.temperatureUnit, "\n",
      "**Conditions:** ", period.shortForecast, "\n">>
    \o (IF period.probabilityOfPrecipitation # 0
        THEN <<"**Precipitation:** ", ToString(period.probabilityOfPrecipitation), "% chance\n">>
        ELSE <<>>)
    \o (IF period.windSpeed # "" /\ period.windDirection # ""
        THEN <<"**Wind:** ", period.windSpeed, " ", period.windDirection, "\n">>
        ELSE <<>>)
    \o <<"\n", period.detailedForecast, "\n\n", "---\n\n">>

get_weather_forecast_body(args, log) ==
    LET coords == parseLocation(args.location.v)
        days == args.days.v
    IN
    IF ~coords.ok THEN Throw(Error(coords.message))
    ELSE IF Len(log) = 0 THEN Call(PointsEndpoint(coords))
    ELSE LET pointData == getPointMetadata(log[1].out) IN
    IF ~pointData.ok THEN Throw(pointData.err)
    ELSE IF Len(log) = 1 THEN Call(GridEndpoint(pointData.data, "forecast", <<"/forecast">>))
    ELSE LET forecastData == weatherApiRequest(log[2].out) IN
    IF ~forecastData.ok THEN Throw(forecastData.err)
    ELSE LET periods == slice(forecastData.data.properties.periods, days * 2) IN
         Return(<<"# ", ToString(days), "-Day Weather Forecast\n\n">>
                \o LocationLine(coords)
                \o <<"**Updated:** ">>
                \o toLocaleString(forecastData.data.properties.updateTime) \o <<"\n\n">>
                \o Concat([k \in 1..Len(periods) |-> ForecastPeriod(periods[k])]))

get_weather_forecast(args, log) == WeatherCatch(get_weather_forecast_body(args, log))

HourlyPeriod(period) ==
    <<"**", "toLocaleTimeString(", period.startTime, ")", " (",
      "toLocaleDateString(", period.startTime, ")", ")** - ",
      ToString(period.temperature), "°", period.temperatureUnit, " - ",
      period.shortForecast>>
    \o (IF period.probabilityOfPrecipitation # 0
        THEN <<" - ", ToString(period.probabilityOfPrecipitation), "% rain">>
        ELSE <<>>)
    \o <<"\n">>

get_hourly_forecast_body(args, log) ==
    LET coords == parseLocation(args.location.v)
        hours == args.hours.v
    IN
    IF ~coords.ok THEN Throw(Error(coords.message))
    ELSE IF Len(log) = 0 THEN Call(PointsEndpoint(coords))
    ELSE LET pointData == getPointMetadata(log[1].out) IN
    IF ~pointData.ok THEN Throw(pointData.err)
    ELSE IF Len(log) = 1
    THEN Call(GridEndpoint(pointData.data, "hourly", <<"/forecast/hourly">>))
    ELSE LET forecastData == weatherApiRequest(log[2].out) IN
    IF ~forecastData.ok THEN Throw(forecastData.err)
    ELSE LET periods == slice(forecastData.data.properties.periods, hours) IN
         Return(<<"# ", ToString(hours), "-Hour Weather Forecast\n\n">>
                \o LocationLine(coords)
                \o <<"**Updated:** ">>
                \o toLocaleString(forecastData.data.properties.updateTime) \o <<"\n\n">>
                \o Concat([k \in 1..Len(periods) |-> HourlyPeriod(periods[k])]))

get_hourly_forecast(args, log) == WeatherCatch(get_hourly_forecast_body(args, log))

\* toLowerCase leaving its argument as it is.
toLowerCase_asIs(s) == s

\* String.prototype.toLowerCase on the severities that occur.
toLowerCase(s) ==
    CASE s \in {"Extreme", "EXTREME", "extreme"}    -> "extreme"
      [] s \in {"Severe", "SEVERE", "severe"}       -> "severe"
      [] s \in {"Moderate", "MODERATE", "moderate"} -> "moderate"
      [] s \in {"Minor", "MINOR", "minor"}          -> "minor"
      [] s \in {"Unknown", "UNKNOWN", "unknown"}    -> "unknown"
      [] s \in {"All", "ALL", "all"}                -> "all"
      [] OTHER -> s

\* The alerts endpoint chosen by the length of the location alone.
AlertsEndpoint_lengthOnly(location) ==
    LET cs == Chars(location) IN
    IF Len(cs) = 2
    THEN Endpoint("alerts", <<"/alerts/active", "/area/", location>>)
    ELSE LET coords == parseLocation(location) IN
         IF coords.ok
         THEN Endpoint("alerts", <<"/alerts/active", "?point=">> \o coords.latitude
                                  \o <<",">> \o coords.longitude)
         ELSE Endpoint("alerts", <<"/alerts/active">>)

AlertsEndpoint(location) ==
    LET Upper == {"A","B","C","D","E","F","G","H","I","J","K","L","M",
                  "N","O","P","Q","R","S","T","U","V","W","X","Y","Z"}
    IN
    LET cs == Chars(location) IN
    IF Len(cs) = 2 /\ cs[1] \in Upper /\ cs[2] \in Upper
    THEN Endpoint("alerts", <<"/alerts/active", "/area/", location>>)
    ELSE LET coords == parseLocation(location) IN
         IF coords.ok
         THEN Endpoint("alerts", <<"/alerts/active", "?point=">> \o coords.latitude
                                  \o <<",">> \o coords.longitude)
         ELSE Endpoint("alerts", <<"/alerts/active">>)

AlertBlock(props) ==
    <<"## ", props.event, "\n\n",
      "**Severity:** ", props.severity, "\n",
      "**Urgency:** ", props.urgency, "\n",
      "**Areas:** ", props.areaDesc, "\n">>
    \o (IF props.effective # ""
        THEN <<"**Effective:** ">> \o toLocaleString(props.effective) \o <<"\n">>
        ELSE <<>>)
    \o (IF props.expires # ""
        THEN <<"**Expires:** ">> \o toLocaleString(props.expires) \o <<"\n">>
        ELSE <<>>)
    \o <<"\n**Description:**\n", props.description, "\n\n">>
    \o (IF props.instruction # ""
        THEN <<"**Instructions:**\n", props.instruction, "\n\n">>
        ELSE <<>>)
    \o <<"---\n\n">>

\* The alerts handler with a second attempt after a failed request.
get_weather_alerts_body_retry(args, log) ==
    LET location == args.location.v
        severity == args.severity.v
    IN
    IF Len(log) = 0 THEN Call(AlertsEndpoint(location))
    ELSE IF Len(log) = 1 /\ ~weatherApiRequest(log[1].out).ok
    THEN Call(AlertsEndpoint(location))
    ELSE LET alertsData == weatherApiRequest(log[Len(log)].out) IN
    IF ~alertsData.ok THEN Throw(alertsData.err)
    ELSE LET alerts == IF alertsData.data.hasFeatures
                       THEN alertsData.data.features ELSE <<>>
             Matches(alert) == toLowerCase(alert.properties.severity) = severity
             filteredAlerts == IF severity = "all" THEN alerts
                               ELSE SelectSeq(alerts, Matches)
         IN
         IF Len(filteredAlerts) = 0
         THEN Return(<<"# Weather Alerts\n\nNo active weather alerts found for ",
                       location, ".">>)
         ELSE Return(<<"# Weather Alerts for ", location, "\n\n",
                       "Found ", ToString(Len(filteredAlerts)), " active alert(s)\n\n">>
                     \o Concat([k \in 1..Len(filteredAlerts) |->
                                   AlertBlock(filteredAlerts[k].properties)]))

get_weather_alerts_body(args, log) ==
    LET location == args.location.v
        severity == args.severity.v
    IN
    IF Len(log) = 0 THEN Call(AlertsEndpoint(location))
    ELSE LET alertsData == weatherApiRequest(log[1].out) IN
    IF ~alertsData.ok THEN Throw(alertsData.err)
    ELSE LET alerts == IF alertsData.data.hasFeatures
                       THEN alertsData.data.features ELSE <<>>
             Matches(alert) == toLowerCase(alert.properties.severity) = severity
             filteredAlerts == IF severity = "all" THEN alerts
                               ELSE SelectSeq(alerts, Matches)
         IN
         IF Len(filteredAlerts) = 0
         THEN Return(<<"# Weather Alerts\n\nNo active weather alerts found for ",
                       location, ".">>)
         ELSE Return(<<"# Weather Alerts for ", location, "\n\n",
                       "Found ", ToString(Len(filteredAlerts)), " active alert(s)\n\n">>
                     \o Concat([k \in 1..Len(filteredAlerts) |->
                                   AlertBlock(filteredAlerts[k].properties)]))

get_weather_alerts(args, log) == WeatherCatch(get_weather_alerts_body(args, log))

\* One station of find_weather_stations: its header lines, then the
\* latest observation, whose failure is caught on the spot.
StationBlock(props, out) ==
    <<"## ", props.name, "\n\n", "**Station ID:** ", props.stationIdentifier, "\n">>
    \o (IF props.elevation # 0
        THEN <<"**Elevation:** ", "toFixed0(", ToString(props.elevation),
               " * 3.28084)", " ft\n">>
        ELSE <<>>)
    \o (IF props.distance # 0
        THEN <<"**Distance:** ", "toFixed1(", ToString(props.distance),
               " / 1000 * 0.621371)", " miles\n">>
        ELSE <<>>)
    \o (LET obsData == weatherApiRequest(out) IN
        IF ~obsData.ok THEN <<"**Latest Report:** Not available\n">>
        ELSE IF "properties" \notin DOMAIN obsData.data THEN <<>>
        ELSE LET obs == obsData.data.properties IN
             <<"**Latest Report:** ">> \o toLocaleString(obs.timestamp) \o <<"\n">>
             \o (IF obs.temperature.hasValue
                 THEN <<"**Temperature:** ", "toFixed1(",
                        ToString(obs.temperature.value), " * 9 / 5 + 32)", "°F\n">>
                 ELSE <<>>))
    \o <<"\n---\n\n">>

\* find_weather_stations without the try/catch around the observation call.
find_weather_stations_body_noInnerCatch(args, log) ==
    LET coords == parseLocation(args.location.v)
        limit == args.limit.v
    IN
    IF ~coords.ok THEN Throw(Error(coords.message))
    ELSE IF Len(log) = 0 THEN Call(PointsEndpoint(coords))
    ELSE LET pointData == getPointMetadata(log[1].out) IN
    IF ~pointData.ok THEN Throw(pointData.err)
    ELSE IF Len(log) = 1
    THEN Call(GridEndpoint(pointData.data, "stations",
                           <<"/stations?limit=", ToString(limit)>>))
    ELSE LET stationsData == weatherApiRequest(log[2].out) IN
    IF ~stationsData.ok THEN Throw(stationsData.err)
    ELSE LET stations == IF stationsData.data.hasFeatures
                         THEN stationsData.data.features ELSE <<>>
         IN
         IF Len(stations) = 0
         THEN Return(<<"# Weather Stations\n\nNo weather stations found near ",
                       args.location.v, ".">>)
         ELSE IF \E k \in 3..Len(log) : ~weatherApiRequest(log[k].out).ok
         THEN Throw(weatherApiRequest(log[Len(log)].out).err)
         ELSE IF Len(log) < 2 + Len(stations)
         THEN Call(ObservationEndpoint(
                      stations[Len(log) - 1].properties.stationIdentifier))
         ELSE Return(<<"# Weather Stations Near ", args.location.v, "\n\n",
                       "Found ", ToString(Len(stations)), " station(s)\n\n">>
                     \o Concat([k \in 1..Len(stations) |->
                                   StationBlock(stations[k].properties, log[2 + k].out)]))

find_weather_stations_body(args, log) ==
    LET coords == parseLocation(args.location.v)
        limit == args.limit.v
    IN
    IF ~coords.ok THEN Throw(Error(coords.message))
    ELSE IF Len(log) = 0 THEN Call(PointsEndpoint(coords))
    ELSE LET pointData == getPointMetadata(log[1].out) IN
    IF ~pointData.ok THEN Throw(pointData.err)
    ELSE IF Len(log) = 1
    THEN Call(GridEndpoint(pointData.data, "stations",
                           <<"/stations?limit=", ToString(limit)>>))
    ELSE LET stationsData == weatherApiRequest(log[2].out) IN
    IF ~stationsData.ok THEN Throw(stationsData.err)
    ELSE LET stations == IF stationsData.data.hasFeatures
                         THEN stationsData.data.features ELSE <<>>
         IN
         IF Len(stations) = 0
         THEN Return(<<"# Weather Stations\n\nNo weather stations found near ",
                       args.location.v, ".">>)
         ELSE IF Len(log) < 2 + Len(stations)
         THEN Call(ObservationEndpoint(
                      stations[Len(log) - 1].properties.stationIdentifier))
         ELSE Return(<<"# Weather Stations Near ", args.location.v, "\n\n",
                       "Found ", ToString(Len(stations)), " station(s)\n\n">>
                     \o Concat([k \in 1..Len(stations) |->
                                   StationBlock(stations[k].properties, log[2 + k].out)]))

find_weather_stations(args, log) == WeatherCatch(find_weather_stations_body(args, log))

\* ------------------------------------------------------------------------
\* Maps server.
\* ------------------------------------------------------------------------
MapsEndpoint(api, params, key) ==
    Endpoint(api, <<"https://maps.googleapis.com/maps/api/", api, "/json?">>
                  \o params \o <<"key=", key>>)

\* JSON.stringify of an object, given the text of its members.
JSONstringify(members) == <<"{">> \o members \o <<"}">>

\* Array.prototype.join of an array of strings.
RECURSIVE join(_, _)
join(arr, sep) ==
    IF Len(arr) = 0 THEN <<>>
    ELSE IF Len(arr) = 1 THEN <<arr[1].v>>
    ELSE <<arr[1].v, sep>> \o join(Tail(arr), sep)

\* await fetch(url) followed by await response.json().
MapsFetch(out) ==
    IF out.k = "network" THEN Raise(FetchFailed) ELSE Value(out.data)

TypeErrorUndefined ==
    Error(<<"Cannot read properties of undefined">>)

\* The error of a maps handler naming the status only.
MapsStatus_statusOnly(what, data) == Error(<<what, " failed: ", data.status>>)

\* The check every maps handler makes on the response body.
MapsStatus(what, data) ==
    Error(<<what, " failed: ",
            IF data.error_message # "" THEN data.error_message ELSE data.status>>)

handleGeocode(address, key, log) ==
    IF Len(log) = 0
    THEN Call(MapsEndpoint("geocode", <<"address=", address, "&">>, key))
    ELSE LET r == MapsFetch(log[1].out) IN
    IF ~r.ok THEN Throw(r.err)
    ELSE LET data == r.data IN
    IF data.status # "OK" THEN Throw(MapsStatus("Geocoding", data))
    ELSE IF Len(data.results) = 0 THEN Throw(TypeErrorUndefined)
    ELSE Return(<<"\"location\": ", data.results[1].location,
                  "\"formatted_address\": ", data.results[1].formatted_address,
                  "\"place_id\": ", data.results[1].place_id>>)

\* A maps tool handler: await the API handler, then wrap its result.  There
\* is no try/catch: what the API handler raises leaves the tool handler.
MapsToolHandler(step) ==
    IF step.op = "return" THEN Return(JSONstringify(step.text)) ELSE step

maps_geocode(args, key, log) ==
    MapsToolHandler(handleGeocode(args.address.v, key, log))

DefaultMode(mode) == IF mode = Undefined THEN "driving" ELSE mode.v

handleDistanceMatrix(origins, destinations, mode, key, log) ==
    IF Len(log) = 0
    THEN Call(MapsEndpoint("distancematrix",
                 <<"origins=">> \o join(origins, "|") \o <<"&destinations=">>
                 \o join(destinations, "|") \o <<"&mode=", mode, "&">>, key))
    ELSE LET r == MapsFetch(log[1].out) IN
    IF ~r.ok THEN Throw(r.err)
    ELSE LET data == r.data IN
    IF data.status # "OK" THEN Throw(MapsStatus("Distance matrix request", data))
    ELSE Return(<<"\"origin_addresses\": ">> \o data.origin_addresses
                \o <<"\"destination_addresses\": ">> \o data.destination_addresses
                \o <<"\"results\": ">> \o data.rows)

maps_distance_matrix(args, key, log) ==
    MapsToolHandler(handleDistanceMatrix(args.origins.v, args.destinations.v,
                                         DefaultMode(args.mode), key, log))

handleDirections(origin, destination, mode, key, log) ==
    IF Len(log) = 0
    THEN Call(MapsEndpoint("directions",
                 <<"origin=", origin, "&destination=", destination,
                   "&mode=", mode, "&">>, key))
    ELSE LET r == MapsFetch(log[1].out) IN
    IF ~r.ok THEN Throw(r.err)
    ELSE LET data == r.data IN
    IF data.status # "OK" THEN Throw(MapsStatus("Directions request", data))
    ELSE Return(<<"\"routes\": ">> \o data.routes)

maps_directions(args, key, log) ==
    MapsToolHandler(handleDirections(args.origin.v, args.destination.v,
                                     DefaultMode(args.mode), key, log))

handleReverseGeocode(latitude, longitude, key, log) ==
    IF Len(log) = 0
    THEN Call(MapsEndpoint("geocode",
                 <<"latlng=", ToString(latitude), ",", ToString(longitude), "&">>, key))
    ELSE LET r == MapsFetch(log[1].out) IN
    IF ~r.ok THEN Throw(r.err)
    ELSE LET data == r.data IN
    IF data.status # "OK" THEN Throw(MapsStatus("Reverse geocoding", data))
    ELSE IF Len(data.results) = 0 THEN Throw(TypeErrorUndefined)
    ELSE Return(<<"\"formatted_address\": ", data.results[1].formatted_address,
                  "\"place_id\": ", data.results[1].place_id>>)

maps_reverse_geocode(args, key, log) ==
    MapsToolHandler(handleReverseGeocode(args.latitude.v, args.longitude.v, key, log))

handlePlaceSearch(query, location, radius, key, log) ==
    IF Len(log) = 0
    THEN Call(Endpoint("place/textsearch",
                 <<"https://maps.googleapis.com/maps/api/", "place/textsearch", "/json?",
                   "query=", query, "&", "key=", key>>
                 \o (IF location # Undefined
                     THEN <<"&location=", ToString(location.v.latitude.v), ",",
                            ToString(location.v.longitude.v)>>
                     ELSE <<>>)
                 \o (IF radius # Undefined /\ radius.v # 0
                     THEN <<"&radius=", ToString(radius.v)>> ELSE <<>>)))
    ELSE LET r == MapsFetch(log[1].out) IN
    IF ~r.ok THEN Throw(r.err)
    ELSE LET data == r.data IN
    IF data.status # "OK" THEN Throw(MapsStatus("Place search", data))
    ELSE Return(<<"\"places\": ">>
                \o Concat([k \in 1..Len(data.results) |->
                              <<"\"formatted_address\": ", data.results[k].formatted_address,
                                "\"location\": ", data.results[k].location,
                                "\"place_id\": ", data.results[k].place_id>>]))

maps_search_places(args, key, log) ==
    MapsToolHandler(handlePlaceSearch(args.query.v, args.location, args.radius, key, log))

handlePlaceDetails(place_id, key, log) ==
    IF Len(log) = 0
    THEN Call(MapsEndpoint("place/details", <<"place_id=", place_id, "&">>, key))
    ELSE LET r == MapsFetch(log[1].out) IN
    IF ~r.ok THEN Throw(r.err)
    ELSE LET data == r.data IN
    IF data.status # "OK" THEN Throw(MapsStatus("Place details request", data))
    ELSE Return(<<"\"name\": ", data.result.name,
                  "\"formatted_address\": ", data.result.formatted_address,
                  "\"location\": ", data.result.location>>)

maps_place_details(args, key, log) ==
    MapsToolHandler(handlePlaceDetails(args.place_id.v, key, log))

\* locations.map((loc) => `${loc.latitude},${loc.longitude}`).join("|").
RECURSIVE locationString(_)
locationString(locations) ==
    IF Len(locations) = 0 THEN <<>>
    ELSE <<ToString(locations[1].v.latitude.v), ",", ToString(locations[1].v.longitude.v)>>
         \o (IF Len(locations) = 1 THEN <<>>
             ELSE <<"|">> \o locationString(Tail(locations)))

handleElevation(locations, key, log) ==
    IF Len(log) = 0
    THEN Call(MapsEndpoint("elevation",
                 <<"locations=">> \o locationString(locations) \o <<"&">>, key))
    ELSE LET r == MapsFetch(log[1].out) IN
    IF ~r.ok THEN Throw(r.err)
    ELSE LET data == r.data IN
    IF data.status # "OK" THEN Throw(MapsStatus("Elevation request", data))
    ELSE Return(<<"\"results\": ">>
                \o Concat([k \in 1..Len(data.results) |->
                              <<"\"location\": ", data.results[k].location>>]))

maps_elevation(args, key, log) ==
    MapsToolHandler(handleElevation(args.locations.v, key, log))

\* ------------------------------------------------------------------------
\* GitHub server.
\* ------------------------------------------------------------------------
\* An octokit request: the response data, or the request error raised for
\* a non-2xx status or a transport failure.
octokit(out) ==
    CASE out.k = "network" -> Raise(FetchFailed)
      [] out.k = "status"  -> Raise(Error(<<StatusText(out.code)>>))
      [] OTHER -> Value(out.data)

\* The catch of the github handlers.
GithubCatch(step) ==
    IF step.op = "throw"
    THEN Caught(<<ErrorPrefix>> \o
                (IF step.err.isError THEN step.err.message ELSE <<"undefined">>))
    ELSE step

\* A request parameter, left out when undefined.
Param(name, val) ==
    IF val = Undefined THEN <<>>
    ELSE <<name, "=", IF val.t = "number" THEN ToString(val.v) ELSE val.v, "&">>

search_repositories_body(args, log) ==
    IF Len(log) = 0
    THEN Call(Endpoint("search.repos",
                 Param("q", args.query) \o Param("per_page", args.per_page)
                 \o Param("page", args.page)))
    ELSE LET response == octokit(log[1].out) IN
    IF ~response.ok THEN Throw(response.err)
    ELSE Return(JSONstringify(<<response.data>>))

search_repositories(args, log) == GithubCatch(search_repositories_body(args, log))

list_commits_body(args, log) ==
    IF Len(log) = 0
    THEN Call(Endpoint("repos.listCommits",
                 Param("owner", args.owner) \o Param("repo", args.repo)
                 \o Param("sha", args.sha) \o Param("per_page", args.per_page)
                 \o Param("page", args.page)))
    ELSE LET response == octokit(log[1].out) IN
    IF ~response.ok THEN Throw(response.err)
    ELSE Return(JSONstringify(<<response.data>>))

list_commits(args, log) == GithubCatch(list_commits_body(args, log))

get_tag_body(args, log) ==
    IF Len(log) = 0
    THEN Call(Endpoint("git.getRef",
                 Param("owner", args.owner) \o Param("repo", args.repo)
                 \o <<"ref=", "tags/", args.tag.v>>))
    ELSE LET refResp == octokit(log[1].out) IN
    IF ~refResp.ok THEN Throw(refResp.err)
    ELSE IF Len(log) = 1
    THEN Call(Endpoint("git.getTag",
                 Param("owner", args.owner) \o Param("repo", args.repo)
                 \o <<"tag_sha=", refResp.data>>))
    ELSE LET tagResp == octokit(log[2].out) IN
    IF ~tagResp.ok THEN Throw(tagResp.err)
    ELSE Return(JSONstringify(<<tagResp.data>>))

get_tag(args, log) == GithubCatch(get_tag_body(args, log))

\* The tree entries made of the files argument.
treeItems(files) ==
    Concat([k \in 1..Len(files) |->
               <<"path=", files[k].v.path.v, "&", "mode=", "100644", "&",
                 "type=", "blob", "&", "content=", files[k].v.content.v, "&">>])

\* push_files sending updateRef with force: true.
push_files_body_force(args, log) ==
    LET repoParams == Param("owner", args.owner) \o Param("repo", args.repo) IN
    IF Len(log) = 0
    THEN Call(Endpoint("git.getRef", repoParams \o <<"ref=", "heads/", args.branch.v>>))
    ELSE LET refResp == octokit(log[1].out) IN
    IF ~refResp.ok THEN Throw(refResp.err)
    ELSE LET baseSha == refResp.data.object.sha IN
    IF Len(log) = 1
    THEN Call(Endpoint("git.getCommit", repoParams \o <<"commit_sha=", baseSha>>))
    ELSE LET baseCommit == octokit(log[2].out) IN
    IF ~baseCommit.ok THEN Throw(baseCommit.err)
    ELSE IF Len(log) = 2
    THEN Call(Endpoint("git.createTree",
                 repoParams \o <<"base_tree=", baseCommit.data.tree.sha, "&">>
                 \o treeItems(args.files.v)))
    ELSE LET newTree == octokit(log[3].out) IN
    IF ~newTree.ok THEN Throw(newTree.err)
    ELSE IF Len(log) = 3
    THEN Call(Endpoint("git.createCommit",
                 repoParams \o Param("message", args.message)
                 \o <<"tree=", newTree.data.sha, "&", "parents=", baseSha>>))
    ELSE LET newCommit == octokit(log[4].out) IN
    IF ~newCommit.ok THEN Throw(newCommit.err)
    ELSE IF Len(log) = 4
    THEN Call(Endpoint("git.updateRef",
                 repoParams \o <<"ref=", "heads/", args.branch.v, "&",
                                 "sha=", newCommit.data.sha, "&", "force=", "true">>))
    ELSE LET updatedRef == octokit(log[5].out) IN
    IF ~updatedRef.ok THEN Throw(updatedRef.err)
    ELSE Return(JSONstringify(<<updatedRef.data>>))

push_files_body(args, log) ==
    LET repoParams == Param("owner", args.owner) \o Param("repo", args.repo) IN
    IF Len(log) = 0
    THEN Call(Endpoint("git.getRef", repoParams \o <<"ref=", "heads/", args.branch.v>>))
    ELSE LET refResp == octokit(log[1].out) IN
    IF ~refResp.ok THEN Throw(refResp.err)
    ELSE LET baseSha == refResp.data.object.sha IN
    IF Len(log) = 1
    THEN Call(Endpoint("git.getCommit", repoParams \o <<"commit_sha=", baseSha>>))
    ELSE LET baseCommit == octokit(log[2].out) IN
    IF ~baseCommit.ok THEN Throw(baseCommit.err)
    ELSE IF Len(log) = 2
    THEN Call(Endpoint("git.createTree",
                 repoParams \o <<"base_tree=", baseCommit.data.tree.sha, "&">>
                 \o treeItems(args.files.v)))
    ELSE LET newTree == octokit(log[3].out) IN
    IF ~newTree.ok THEN Throw(newTree.err)
    ELSE IF Len(log) = 3
    THEN Call(Endpoint("git.createCommit",
                 repoParams \o Param("message", args.message)
                 \o <<"tree=", newTree.data.sha, "&", "parents=", baseSha>>))
    ELSE LET newCommit == octokit(log[4].out) IN
    IF ~newCommit.ok THEN Throw(newCommit.err)
    ELSE IF Len(log) = 4
    THEN Call(Endpoint("git.updateRef",
                 repoParams \o <<"ref=", "heads/", args.branch.v, "&",
                                 "sha=", newCommit.data.sha, "&", "force=", "false">>))
    ELSE LET updatedRef == octokit(log[5].out) IN
    IF ~updatedRef.ok THEN Throw(updatedRef.err)
    ELSE Return(JSONstringify(<<updatedRef.data>>))

push_files(args, log) == GithubCatch(push_files_body(args, log))

\* ------------------------------------------------------------------------
\* Dispatch of a handler by tool name.
\* ------------------------------------------------------------------------
Handler(name, args, key, log) ==
    CASE name = "get_current_weather"   -> get_current_weather(args, log)
      [] name = "get_weather_forecast"  -> get_weather_forecast(args, log)
      [] name = "get_hourly_forecast"   -> get_hourly_forecast(args, log)
      [] name = "get_weather_alerts"    -> get_weather_alerts(args, log)
      [] name = "find_weather_stations" -> find_weather_stations(args, log)
      [] name = "maps_geocode"          -> maps_geocode(args, key, log)
      [] name = "maps_distance_matrix"  -> maps_distance_matrix(args, key, log)
      [] name = "maps_directions"       -> maps_directions(args, key, log)
      [] name = "maps_reverse_geocode"  -> maps_reverse_geocode(args, key, log)
      [] name = "maps_search_places"    -> maps_search_places(args, key, log)
      [] name = "maps_place_details"    -> maps_place_details(args, key, log)
      [] name = "maps_elevation"        -> maps_elevation(args, key, log)
      [] name = "search_repositories"   -> search_repositories(args, log)
      [] name = "list_commits"          -> list_commits(args, log)
      [] name = "get_tag"               -> get_tag(args, log)
      [] name = "push_files"            -> push_files(args, log)

\* The tools whose handlers are given above.
Invocable ==
    {"get_current_weather", "get_weather_forecast", "get_hourly_forecast",
     "get_weather_alerts", "find_weather_stations", "maps_geocode",
     "maps_distance_matrix", "maps_directions", "search_repositories",
     "list_commits", "get_tag", "push_files", "maps_reverse_geocode",
     "maps_search_places", "maps_place_details", "maps_elevation"}

\* ------------------------------------------------------------------------
\* The stub upstream: the outcomes a request of each kind can have.
\* ------------------------------------------------------------------------
PointBody == [properties |-> [gridId |-> "OKX", gridX |-> 32, gridY |-> 34]]

StationsBody(ids) ==
    LET Station(id) ==
            [properties |-> [stationIdentifier |-> id, name |-> id, elevation |-> 0,
                             distance |-> 0]]
    IN
    [hasFeatures |-> TRUE, features |-> [k \in 1..Len(ids) |-> Station(ids[k])]]

ObservationBody ==
    [properties |-> [timestamp |-> "t0", textDescription |-> "Clear",
                     temperature |-> [hasValue |-> TRUE, value |-> 20]]]

ForecastBody(names) ==
    LET Period(name) ==
            [name |-> name, temperature |-> 50, temperatureUnit |-> "F",
             shortForecast |-> "Sunny", detailedForecast |-> "Sunny all day",
             windSpeed |-> "", windDirection |-> "", probabilityOfPrecipitation |-> 0,
             startTime |-> name]
    IN
    [properties |-> [updateTime |-> "t0",
                     periods |-> [k \in 1..Len(names) |-> Period(names[k])]]]

AlertsBody(severities) ==
    LET Alert(severity) ==
            [properties |-> [event |-> "Flood Warning", severity |-> severity,
                             urgency |-> "Immediate", areaDesc |-> "Area",
                             effective |-> "", expires |-> "", description |-> "Flooding",
                             instruction |-> ""]]
    IN
    [hasFeatures |-> TRUE,
     features |-> [k \in 1..Len(severities) |-> Alert(severities[k])]]

MapsBody(status, error_message) ==
    LET GeocodeResult ==
            [location |-> "{lat,lng}", formatted_address |-> "1 Main St", place_id |-> "p1"]
    IN
    [status |-> status, error_message |-> error_message,
     results |-> IF status = "OK" THEN <<GeocodeResult>> ELSE <<>>,
     result |-> [name |-> "Place", formatted_address |-> "1 Main St",
                 location |-> "{lat,lng}"],
     origin_addresses |-> <<"A">>, destination_addresses |-> <<"B">>,
     rows |-> <<"row">>, routes |-> <<"route">>]

Outcomes(kind) ==
    LET WeatherFailures == {HttpStatus(500), NetworkFailure}
    IN
    CASE kind = "points"      -> {Ok(PointBody)} \cup WeatherFailures
      [] kind = "stations"    -> {Ok(StationsBody(<<>>)), Ok(StationsBody(<<"KNYC">>))}
                                   \cup WeatherFailures
      [] kind = "observation" -> {Ok(ObservationBody)} \cup WeatherFailures
      [] kind = "forecast"    -> {Ok(ForecastBody(<<"Tonight", "Monday", "Monday Night">>))}
                                   \cup WeatherFailures
      [] kind = "hourly"      -> {Ok(ForecastBody(<<"1PM", "2PM">>))} \cup WeatherFailures
      [] kind = "alerts"      -> {Ok(AlertsBody(<<"Severe", "Minor">>))} \cup WeatherFailures
      [] kind \in {"geocode", "distancematrix", "directions", "place/textsearch",
                   "place/details", "elevation"} ->
            {Ok(MapsBody("OK", "")), Ok(MapsBody("ZERO_RESULTS", "")),
             Ok(MapsBody("REQUEST_DENIED", "The provided API key is invalid.")),
             NetworkFailure}
      [] OTHER -> {Ok("data"), HttpStatus(404), NetworkFailure}

\* ------------------------------------------------------------------------
\* The calls a caller makes: the raw inputs tried for each tool.
\* ------------------------------------------------------------------------
Coordinates == "40.7128,-74.0060"

RawInputs(name) ==
    CASE name = "get_current_weather" ->
            {[location |-> Str(Coordinates)], [location |-> Str("New York, NY")],
             [location |-> Num(40)]}
      [] name = "get_weather_forecast" ->
            {[location |-> Str(Coordinates)],
             [location |-> Str(Coordinates), days |-> Num(7)],
             [location |-> Str(Coordinates), days |-> Str("seven")],
             [days |-> Num(1)]}
      [] name = "get_hourly_forecast" ->
            {[location |-> Str(Coordinates)],
             [location |-> Str(Coordinates), hours |-> Num(24)]}
      [] name = "get_weather_alerts" ->
            {[location |-> Str("CA")],
             [location |-> Str("CA"), severity |-> Str("all")],
             [location |-> Str("CA"), severity |-> Str("catastrophic")]}
      [] name = "find_weather_stations" ->
            {[location |-> Str(Coordinates)],
             [location |-> Str(Coordinates), limit |-> Num(10)]}
      [] name = "maps_geocode" ->
            {[address |-> Str("1 Main St")], [address |-> Num(1)],
             [address |-> Str("1 Main St"), language |-> Str("en")]}
      [] name = "maps_distance_matrix" ->
            {[origins |-> Arr(<<Str("A")>>), destinations |-> Arr(<<Str("B")>>)],
             [origins |-> Arr(<<Str("A")>>), destinations |-> Arr(<<Str("B")>>),
              mode |-> Str("walking")],
             [origins |-> Arr(<<Str("A")>>), destinations |-> Arr(<<Str("B")>>),
              mode |-> Str("flying")]}
      [] name = "maps_directions" ->
            {[origin |-> Str("A"), destination |-> Str("B")],
             [origin |-> Str("A"), destination |-> Str("B"), mode |-> Str("flying")]}
      [] name = "search_repositories" ->
            {[query |-> Str("tla")],
             [query |-> Str("tla"), per_page |-> Num(30), page |-> Num(1)],
             [query |-> Str("tla"), per_page |-> Str("many")],
             [query |-> Str("tla"), sort |-> Str("stars")]}
      [] name = "list_commits" ->
            {[owner |-> Str("o"), repo |-> Str("r")],
             [owner |-> Str("o"), repo |-> Str("r"), per_page |-> Num(30),
              page |-> Num(1)],
             [owner |-> Str("o")]}
      [] name = "get_tag" ->
            {[owner |-> Str("o"), repo |-> Str("r"), tag |-> Str("v1")]}
      [] OTHER -> {}

\* A name a caller may ask for that no server has.
UnknownNames == {"nonexistent"}

\* ------------------------------------------------------------------------
\* State.
\* ------------------------------------------------------------------------
VARIABLES
    server,         \* which adapter this process is
    declarations,   \* the tool definitions its construction routine registers
    phase,          \* "constructing", "serving" or "aborted"
    registry,       \* the tool registry
    credential,     \* the upstream credential taken from the configuration
    invocations,    \* the bag of tool invocations dispatched so far
    registryReply   \* the last reply of a registry-level operation

vars == <<server, declarations, phase, registry, credential, invocations,
          registryReply>>

\* ------------------------------------------------------------------------
\* Invocation results.
\* ------------------------------------------------------------------------
NoResult      == [kind |-> "none", content |-> <<>>, err |-> NoError]
\* A result stamped with the number of invocations served so far.
Content_stamped(text) ==
    [kind |-> "content",
     content |-> <<[type |-> "text",
                    text |-> text \o <<ToString(BagCardinality(invocations))>>]>>,
     err |-> NoError]

Content(text) == [kind |-> "content",
                  content |-> <<[type |-> "text", text |-> text]>>, err |-> NoError]
Raised(e)     == [kind |-> "raised", content |-> <<>>, err |-> e]

\* The uniform failure result.
Failure(message) == Content(<<ErrorPrefix>> \o message)

NoReply == [op |-> "none", name |-> "", tools |-> <<>>, result |-> NoResult]

\* Resume with a handler that starts over once after a caught failure.
Resume_retry(inv, key) ==
    LET step == Handler(inv.tool, inv.args, key, inv.log)
        again == Handler(inv.tool, inv.args, key, <<>>)
        retry == /\ step.op = "return" /\ step.caught
                 /\ inv.handlerCalls < 2 /\ again.op = "call"
    IN
    CASE step.op = "call" -> [inv EXCEPT !.pending = step.ep]
      [] retry ->
            [inv EXCEPT !.pending = again.ep,
                        !.log = <<>>,
                        !.trace = @ \o <<"Failed", "Executing">>,
                        !.handlerCalls = @ + 1]
      [] step.op = "return" /\ ~retry ->
            [inv EXCEPT !.pending = NoEndpoint,
                        !.trace = @ \o <<IF step.caught THEN "Failed" ELSE "Succeeded",
                                         "Responded">>,
                        !.result = Content(step.text),
                        !.results = @ + 1]
      [] step.op = "throw" ->
            [inv EXCEPT !.pending = NoEndpoint,
                        !.trace = @ \o <<"Failed">>,
                        !.result = Raised(step.err)]

\* Resume with the arguments kept in one slot shared by the invocations of
\* a tool.
Resume_sharedArgs(inv, key) ==
    LET others == {o \in BagToSet(invocations) :
                      o.tool = inv.tool /\ o.handlerCalls = 1 /\ o.args # inv.args}
        args == IF others = {} THEN inv.args ELSE (CHOOSE o \in others : TRUE).args
        step == Handler(inv.tool, args, key, inv.log)
    IN
    CASE step.op = "call" -> [inv EXCEPT !.pending = step.ep]
      [] step.op = "return" ->
            [inv EXCEPT !.pending = NoEndpoint,
                        !.trace = @ \o <<IF step.caught THEN "Failed" ELSE "Succeeded",
                                         "Responded">>,
                        !.result = Content(step.text),
                        !.results = @ + 1]
      [] step.op = "throw" ->
            [inv EXCEPT !.pending = NoEndpoint,
                        !.trace = @ \o <<"Failed">>,
                        !.result = Raised(step.err)]

\* Runs the handler of an invocation up to its next upstream request, or
\* to its end.
Resume(inv, key) ==
    LET step == Handler(inv.tool, inv.args, key, inv.log) IN
    CASE step.op = "call" -> [inv EXCEPT !.pending = step.ep]
      [] step.op = "return" ->
            [inv EXCEPT !.pending = NoEndpoint,
                        !.trace = @ \o <<IF step.caught THEN "Failed" ELSE "Succeeded",
                                         "Responded">>,
                        !.result = Content(step.text),
                        !.results = @ + 1]
      [] step.op = "throw" ->
            [inv EXCEPT !.pending = NoEndpoint,
                        !.trace = @ \o <<"Failed">>,
                        !.result = Raised(step.err)]

\* The invocation envelope up to the first suspension: validate the raw
\* input against the tool's schema, then start the handler.
Envelope(def, raw, key) ==
    LET v == validate(def.inputSchema, raw)
        received == [tool |-> def.handler, raw |-> raw, args |-> <<>>,
                     trace |-> <<"Received", "Validating">>, log |-> <<>>,
                     pending |-> NoEndpoint, result |-> NoResult,
                     handlerCalls |-> 0, results |-> 0]
    IN IF ~v.ok
       THEN [received EXCEPT !.trace = @ \o <<"ValidationFailed", "Responded">>,
                             !.result = Failure(v.message),
                             !.results = 1]
       ELSE Resume([received EXCEPT !.trace = @ \o <<"Validated", "Executing">>,
                                    !.args = v.args,
                                    !.handlerCalls = 1], key)

\* ------------------------------------------------------------------------
\* Actions.
\* ------------------------------------------------------------------------
Init ==
    /\ server \in Servers
    /\ declarations = [k \in 1..Len(createStatelessServer(server)) |->
                          ToolDefinition(createStatelessServer(server)[k])]
    /\ phase = "constructing"
    /\ registry = <<>>
    /\ credential = ConfigCredential(server)
    /\ invocations = EmptyBag
    /\ registryReply = NoReply

\* One server.tool call of the construction routine; a failing one is
\* rethrown by the routine's catch and ends the construction.
Register ==
    /\ phase = "constructing"
    /\ Len(registry) < Len(declarations)
    /\ LET def == declarations[Len(registry) + 1]
           r == register(registry, def)
       IN /\ registry' = r.registry
          /\ phase' = IF r.ok THEN phase ELSE "aborted"
          /\ registryReply' =
                IF r.ok THEN registryReply
                ELSE [NoReply EXCEPT !.op = "register", !.name = def.name,
                                     !.result = Raised(Error(<<r.error>>))]
    /\ UNCHANGED <<server, declarations, credential, invocations>>

\* The server handed out before the registrations are complete.
ReturnServer_early ==
    /\ phase = "constructing"
    /\ phase' = "serving"
    /\ UNCHANGED <<server, declarations, registry, credential, invocations,
                   registryReply>>

\* return server.server, after the last registration.
ReturnServer ==
    /\ phase = "constructing"
    /\ Len(registry) = Len(declarations)
    /\ phase' = "serving"
    /\ UNCHANGED <<server, declarations, registry, credential, invocations,
                   registryReply>>

\* list.
ListTools ==
    /\ phase = "serving"
    /\ registryReply' = [NoReply EXCEPT !.op = "list", !.tools = list(registry)]
    /\ UNCHANGED <<server, declarations, phase, registry, credential, invocations>>

\* An unknown name thrown out of the call instead of answered.
InvokeUnknown_raises ==
    /\ phase = "serving"
    /\ \E name \in UnknownNames \ Names(registry) :
          registryReply' =
              [NoReply EXCEPT !.op = "invoke", !.name = name,
                              !.result = Raised(Error(<<"UnknownToolError: ", name>>))]
    /\ UNCHANGED <<server, declarations, phase, registry, credential, invocations>>

\* invoke of a name the registry does not hold.
InvokeUnknown ==
    /\ phase = "serving"
    /\ \E name \in UnknownNames \ Names(registry) :
          registryReply' =
              [NoReply EXCEPT !.op = "invoke", !.name = name,
                              !.result = Failure(<<"UnknownToolError: ", name>>)]
    /\ UNCHANGED <<server, declarations, phase, registry, credential, invocations>>

\* invoke of a registered tool: a new invocation enters the envelope.
Dispatch ==
    /\ phase = "serving"
    /\ BagCardinality(invocations) < MaxInvocations
    /\ \E name \in Invocable \cap Names(registry) : \E raw \in RawInputs(name) :
          invocations' =
              invocations (+) SetToBag({Envelope(Lookup(registry, name), raw, credential)})
    /\ UNCHANGED <<server, declarations, phase, registry, credential, registryReply>>

\* The upstream request an invocation waits on returns or fails, and the
\* handler runs on.
UpstreamReply ==
    /\ \E inv \in BagToSet(invocations) :
          /\ inv.pending # NoEndpoint
          /\ \E out \in Outcomes(inv.pending.kind) :
                invocations' =
                    (invocations (-) SetToBag({inv}))
                    (+) SetToBag({Resume([inv EXCEPT !.log =
                                            Append(@, [ep |-> inv.pending, out |-> out])],
                                         credential)})
    /\ UNCHANGED <<server, declarations, phase, registry, credential, registryReply>>

Next ==
    \/ Register
    \/ ReturnServer
    \/ ListTools
    \/ InvokeUnknown
    \/ Dispatch
    \/ UpstreamReply

Spec == Init /\ [][Next]_vars

\* ------------------------------------------------------------------------
\* The registry exercised with arbitrary registration sequences, two
\* definitions of one name among them.
\* ------------------------------------------------------------------------
MaxDeclarations == 3

RECURSIVE SeqsUpTo(_, _)
SeqsUpTo(S, n) ==
    IF n = 0 THEN {<<>>}
    ELSE LET shorter == SeqsUpTo(S, n - 1) IN
         shorter \cup {Append(s, x) : s \in {t \in shorter : Len(t) = n - 1}, x \in S}

InitReg ==
    LET SecondDefinition ==
            [name |-> "get_weather_alerts", description |-> "second definition",
             inputSchema |-> SchemaOf("get_hourly_forecast"),
             handler |-> "get_hourly_forecast"]
    IN
    LET CandidateDefinitions ==
            {ToolDefinition("get_weather_alerts"), ToolDefinition("get_hourly_forecast"),
             SecondDefinition}
    IN
    /\ server = "weather"
    /\ declarations \in SeqsUpTo(CandidateDefinitions, MaxDeclarations) \ {<<>>}
    /\ phase = "constructing"
    /\ registry = <<>>
    /\ credential = ConfigCredential(server)
    /\ invocations = EmptyBag
    /\ registryReply = NoReply

SpecReg == InitReg /\ [][Next]_vars

\* ------------------------------------------------------------------------
\* Properties.
\* ------------------------------------------------------------------------
Invs == BagToSet(invocations)
Status(inv) == inv.trace[Len(inv.trace)]
Visited(inv, status) == \E k \in 1..Len(inv.trace) : inv.trace[k] = status
\* A single text block.
SingleText(result) ==
    /\ result.kind = "content"
    /\ Len(result.content) = 1
    /\ result.content[1].type = "text"

StartsWithError(result) ==
    /\ Len(result.content[1].text) > 1
    /\ result.content[1].text[1] = ErrorPrefix

\* The failure shape: one text block, "Error: " followed by a message.
FailureShape(result) == SingleText(result) /\ StartsWithError(result)

HasParam(raw, p, t) == p \in DOMAIN raw /\ raw[p].t = t
WrongType(raw, p, t) == p \in DOMAIN raw /\ raw[p].t # t

WeatherTools == {"get_current_weather", "get_weather_forecast", "get_hourly_forecast",
                 "get_weather_alerts", "find_weather_stations"}

\* The raw inputs of the calls made here that miss a required parameter,
\* give a parameter the wrong type, or give an enum parameter a value
\* outside its literals.
MissingRequired(tool, raw) ==
    \/ tool \in WeatherTools /\ "location" \notin DOMAIN raw
    \/ tool = "maps_geocode" /\ "address" \notin DOMAIN raw
    \/ tool = "search_repositories" /\ "query" \notin DOMAIN raw
    \/ tool \in {"list_commits", "get_tag"} /\ {"owner", "repo"} \ DOMAIN raw # {}

TypeMismatch(tool, raw) ==
    \/ tool \in WeatherTools /\ WrongType(raw, "location", "string")
    \/ tool = "get_weather_forecast" /\ WrongType(raw, "days", "number")
    \/ tool = "get_hourly_forecast" /\ WrongType(raw, "hours", "number")
    \/ tool = "find_weather_stations" /\ WrongType(raw, "limit", "number")
    \/ tool = "maps_geocode" /\ WrongType(raw, "address", "string")
    \/ tool \in {"search_repositories", "list_commits"}
         /\ (WrongType(raw, "per_page", "number") \/ WrongType(raw, "page", "number"))

\* C1: an invocation whose raw input fails the tool's schema (a required
\* parameter missing, a parameter of the wrong type, an enum value outside
\* the declared set) ends with the failure shape; its handler is never
\* called and no upstream call is issued for it.
C1_InvalidInputNeverReachesHandler ==
    LET EnumOutside(tool, raw) ==
            \/ tool = "get_weather_alerts" /\ HasParam(raw, "severity", "string")
                 /\ raw.severity.v \notin {"all", "extreme", "severe", "moderate", "minor"}
            \/ tool \in {"maps_distance_matrix", "maps_directions"}
                 /\ HasParam(raw, "mode", "string")
                 /\ raw.mode.v \notin {"driving", "walking", "bicycling", "transit"}
    IN
    LET FailsSchema(inv) ==
            \/ MissingRequired(inv.tool, inv.raw)
            \/ TypeMismatch(inv.tool, inv.raw)
            \/ EnumOutside(inv.tool, inv.raw)
    IN
    \A inv \in Invs :
        FailsSchema(inv) =>
            /\ FailureShape(inv.result)
            /\ inv.handlerCalls = 0
            /\ inv.log = <<>> /\ inv.pending = NoEndpoint
            /\ inv.trace = <<"Received", "Validating", "ValidationFailed", "Responded">>

C1_Witness ==
    LET EnumOutside(tool, raw) ==
            \/ tool = "get_weather_alerts" /\ HasParam(raw, "severity", "string")
                 /\ raw.severity.v \notin {"all", "extreme", "severe", "moderate", "minor"}
            \/ tool \in {"maps_distance_matrix", "maps_directions"}
                 /\ HasParam(raw, "mode", "string")
                 /\ raw.mode.v \notin {"driving", "walking", "bicycling", "transit"}
    IN
    \E a, b \in Invs :
        /\ EnumOutside(a.tool, a.raw) /\ FailureShape(a.result)
        /\ (MissingRequired(b.tool, b.raw) \/ TypeMismatch(b.tool, b.raw))
        /\ FailureShape(b.result) /\ b.handlerCalls = 0

\* C2 (as stated): whenever a handler has raised, the invocation has
\* yielded exactly one result, a failure result, and nothing produced
\* before the failure is returned.
C2_RaisingHandlerYieldsOneFailure ==
    \A inv \in Invs :
        Visited(inv, "Failed") =>
            /\ inv.results = 1
            /\ FailureShape(inv.result)

\* C3 (as stated): every failed invocation (validation failure, upstream
\* or connectivity error, unknown tool, handler fault) is reported as one
\* text block "Error: " + message, and no successful invocation returns
\* text that begins with that prefix.
C3_FailureIsErrorPrefixedText ==
    /\ \A inv \in Invs :
          /\ (Visited(inv, "ValidationFailed") \/ Visited(inv, "Failed"))
                => FailureShape(inv.result)
          /\ Visited(inv, "Succeeded")
                => SingleText(inv.result) /\ ~StartsWithError(inv.result)
    /\ registryReply.op = "invoke" => FailureShape(registryReply.result)

\* C4: invoking a name the registry does not hold answers the caller with
\* a failure result; nothing is thrown, the server keeps serving, no
\* handler runs (no invocation is created or advanced) and the registry is
\* unchanged.
C4_UnknownToolIsAFailureResult ==
    [][(registryReply' # registryReply /\ registryReply'.op = "invoke") =>
          /\ registryReply'.name \notin Names(registry)
          /\ FailureShape(registryReply'.result)
          /\ registryReply'.result.content[1].text[2] = "UnknownToolError: "
          /\ registry' = registry
          /\ invocations' = invocations
          /\ phase' = "serving"]_vars

C4_Witness ==
    /\ registryReply.op = "invoke"
    /\ registryReply.name = "nonexistent"
    /\ registry = declarations
    /\ phase = "serving"

\* C5: registering a name that is already registered fails with
\* DuplicateToolError, and the registry still holds exactly what it held:
\* the first definition of the name, in the same position.
C5_DuplicateRegisterFails ==
    [][(phase = "constructing" /\ Len(registry) < Len(declarations)
          /\ declarations[Len(registry) + 1].name \in Names(registry)) =>
          /\ registry' = registry
          /\ Lookup(registry', declarations[Len(registry) + 1].name)
                = declarations[CHOOSE k \in 1..Len(registry) :
                                  declarations[k].name
                                      = declarations[Len(registry) + 1].name]
          /\ registryReply'.op = "register"
          /\ registryReply'.result = Raised(Error(<<"DuplicateToolError">>))]_vars

C5_Witness ==
    /\ registryReply.op = "register"
    /\ registryReply.name = "get_weather_alerts"
    /\ Len(registry) = 2
    /\ declarations[3].name = registry[1].name
    /\ declarations[3].description # registry[1].description
    /\ declarations[3].handler # registry[1].handler

\* C6: the registry never holds two definitions of one name.
C6_NamesAreUnique ==
    \A i, j \in 1..Len(registry) : registry[i].name = registry[j].name => i = j

C6_Witness ==
    /\ phase = "aborted"
    /\ Len(registry) = 2
    /\ invocations = EmptyBag

\* C7: the first list or invoke finds the registry holding every declared
\* tool, and once the server is serving no step changes the registry, any
\* definition in it, or the credential.
C7_RegistryFixedOnceServing ==
    /\ [](  (invocations # EmptyBag \/ registryReply.op \in {"list", "invoke"})
              => (phase = "serving" /\ registry = declarations))
    /\ [][phase = "serving" =>
            /\ registry' = registry
            /\ declarations' = declarations
            /\ credential' = credential
            /\ phase' = "serving"]_vars

C7_Witness ==
    /\ registry = declarations
    /\ registryReply.op = "list"
    /\ \E a, b \in Invs :
          /\ Status(a) = "Responded" /\ Visited(a, "ValidationFailed")
          /\ Status(b) = "Responded" /\ Visited(b, "Failed")

\* C8: a handler started on an input that omits a defaulted parameter sees
\* the declared default, and the call proceeds and ends exactly as the
\* call that gives the default explicitly, the upstream answering alike.
C8_DefaultsAreSubstituted ==
    LET Outs(inv) == [k \in 1..Len(inv.log) |-> inv.log[k].out]
    IN
    LET
        \* The declared defaults.
        DeclaredDefaults(tool) ==
            CASE tool = "get_weather_forecast"  -> [days |-> Num(7)]
              [] tool = "get_hourly_forecast"   -> [hours |-> Num(24)]
              [] tool = "get_weather_alerts"    -> [severity |-> Str("all")]
              [] tool = "find_weather_stations" -> [limit |-> Num(10)]
              [] tool \in {"search_repositories", "list_commits"} ->
                    [per_page |-> Num(30), page |-> Num(1)]
              [] OTHER -> <<>>
    IN
    LET
        \* b is the call a with the omitted defaulted parameters given explicitly.
        ExplicitDefaults(a, b) ==
            /\ a.tool = b.tool
            /\ DOMAIN a.raw # DOMAIN b.raw
            /\ DOMAIN b.raw = DOMAIN a.raw \cup DOMAIN DeclaredDefaults(a.tool)
            /\ \A p \in DOMAIN a.raw : b.raw[p] = a.raw[p]
            /\ \A p \in DOMAIN b.raw \ DOMAIN a.raw : b.raw[p] = DeclaredDefaults(a.tool)[p]
    IN
    /\ \A inv \in Invs :
          inv.handlerCalls > 0 =>
             \A p \in DOMAIN DeclaredDefaults(inv.tool) \ DOMAIN inv.raw :
                 p \in DOMAIN inv.args /\ inv.args[p] = DeclaredDefaults(inv.tool)[p]
    /\ \A a, b \in Invs :
          (ExplicitDefaults(a, b) /\ Outs(a) = Outs(b)) =>
             /\ a.args = b.args
             /\ a.pending = b.pending
             /\ a.result = b.result
             /\ a.trace = b.trace

C8_Witness ==
    LET
        \* The declared defaults.
        DeclaredDefaults(tool) ==
            CASE tool = "get_weather_forecast"  -> [days |-> Num(7)]
              [] tool = "get_hourly_forecast"   -> [hours |-> Num(24)]
              [] tool = "get_weather_alerts"    -> [severity |-> Str("all")]
              [] tool = "find_weather_stations" -> [limit |-> Num(10)]
              [] tool \in {"search_repositories", "list_commits"} ->
                    [per_page |-> Num(30), page |-> Num(1)]
              [] OTHER -> <<>>
    IN
    LET
        \* b is the call a with the omitted defaulted parameters given explicitly.
        ExplicitDefaults(a, b) ==
            /\ a.tool = b.tool
            /\ DOMAIN a.raw # DOMAIN b.raw
            /\ DOMAIN b.raw = DOMAIN a.raw \cup DOMAIN DeclaredDefaults(a.tool)
            /\ \A p \in DOMAIN a.raw : b.raw[p] = a.raw[p]
            /\ \A p \in DOMAIN b.raw \ DOMAIN a.raw : b.raw[p] = DeclaredDefaults(a.tool)[p]
    IN
    \E a, b \in Invs :
        /\ ExplicitDefaults(a, b)
        /\ a.tool = "get_weather_forecast"
        /\ Status(a) = "Responded" /\ Visited(a, "Succeeded")
        /\ Status(b) = "Responded" /\ a.result = b.result

\* C9: the states an invocation has been through are a beginning of one of
\* the three orders, its handler has been started at most once, and it has
\* responded at most once.
C9_StatesInOrder ==
    LET IsPrefix(s, t) == Len(s) <= Len(t) /\ s = SubSeq(t, 1, Len(s))
    IN
    LET
        \* The three orders of states.
        Orders ==
            {<<"Received", "Validating", "ValidationFailed", "Responded">>,
             <<"Received", "Validating", "Validated", "Executing", "Succeeded", "Responded">>,
             <<"Received", "Validating", "Validated", "Executing", "Failed", "Responded">>}
    IN
    \A inv \in Invs :
        /\ \E order \in Orders : IsPrefix(inv.trace, order)
        /\ inv.handlerCalls <= 1
        /\ inv.handlerCalls = 1 <=> Visited(inv, "Executing")
        /\ inv.results <= 1
        /\ Cardinality({k \in 1..Len(inv.trace) : inv.trace[k] = "Responded"}) <= 1

C9_Witness ==
    \E a, b \in Invs :
        /\ a.trace = <<"Received", "Validating", "Validated", "Executing", "Failed",
                       "Responded">>
        /\ Len(a.log) = 2
        /\ b.trace = <<"Received", "Validating", "Validated", "Executing", "Succeeded",
                       "Responded">>

\* C10 (as stated): an invocation that waits on no upstream call has
\* responded, with a well-formed result.
C10_EveryInvocationResponds ==
    \A inv \in Invs :
        inv.pending = NoEndpoint =>
            /\ Status(inv) = "Responded"
            /\ SingleText(inv.result)
            /\ inv.results = 1

\* ------------------------------------------------------------------------
\* One invocation at a time against a wider upstream: every kind of
\* non-2xx answer, two stations, every literal of the enum parameters.
\* ------------------------------------------------------------------------
MaxSolo == 1

WideOutcomes(kind) ==
    LET
        \* The same with the reason phrase the server chose to send.
        ReasonPhrase(c, phrase) == [HttpStatus(c) EXCEPT !.statusText = phrase]
    IN
    LET WideFailures ==
            {HttpStatus(404), HttpStatus(403), HttpStatus(500), HttpStatus(503),
             ReasonPhrase(403, <<"Pre", "fetch", " Refused">>), NetworkFailure}
    IN
    CASE kind = "points"      -> {Ok(PointBody)} \cup WideFailures
      [] kind = "stations"    -> {Ok(StationsBody(<<>>)), Ok(StationsBody(<<"KNYC", "KLGA">>)),
                                  Ok([hasFeatures |-> FALSE, features |-> <<>>])}
                                   \cup WideFailures
      [] kind = "observation" -> {Ok(ObservationBody)} \cup WideFailures
      [] kind = "forecast"    -> {Ok(ForecastBody(<<"Tonight", "Monday", "Monday Night">>))}
                                   \cup WideFailures
      [] kind = "hourly"      -> {Ok(ForecastBody(<<"1PM", "2PM">>))} \cup WideFailures
      [] kind = "alerts"      ->
            {Ok(AlertsBody(<<"Severe", "Minor">>)), Ok(AlertsBody(<<>>)),
             Ok(AlertsBody(<<"Moderate", "Extreme", "Unknown", "Moderate">>)),
             Ok([hasFeatures |-> FALSE, features |-> <<>>])} \cup WideFailures
      [] OTHER -> Outcomes(kind)

WideInputs(name) ==
    LET Modes == {"driving", "walking", "bicycling", "transit"}
    IN
    LET Severities == {"all", "extreme", "severe", "moderate", "minor"}
    IN
    LET
        \* Numbers z.number() accepts for days and hours.
        Days  == {-1, 0, 1, 2}
    IN
    LET Hours == {-1, 1, 3}
    IN
    LET
        \* Location strings: coordinates, coordinates with a blank, a state code,
        \* the same in lower case, a place name.
        Locations == {Coordinates, "40.7, -74", "CA", "ca", "New York, NY"}
    IN
    RawInputs(name) \cup
    CASE name = "get_weather_forecast" ->
            {[location |-> Str(Coordinates), days |-> Num(d)] : d \in Days}
            \cup {[location |-> Str(l)] : l \in Locations}
      [] name = "get_weather_alerts" ->
            {[location |-> Str("CA"), severity |-> Str(s)] : s \in Severities}
            \cup {[location |-> Str("CA"), severity |-> Str("Severe")]}
            \cup {[location |-> Str(l)] : l \in Locations}
      [] name = "get_hourly_forecast" ->
            {[location |-> Str(l)] : l \in Locations}
            \cup {[location |-> Str(Coordinates), hours |-> Num(h)] : h \in Hours}
      [] name \in {"get_current_weather", "find_weather_stations"} ->
            {[location |-> Str(l)] : l \in Locations}
      [] name = "maps_reverse_geocode" ->
            {[latitude |-> Num(40), longitude |-> Num(-74)]}
      [] name = "maps_search_places" ->
            {[query |-> Str("cafe")],
             [query |-> Str("cafe"),
              location |-> Obj([latitude |-> Num(40), longitude |-> Num(-74)]),
              radius |-> Num(500)]}
      [] name = "maps_place_details" -> {[place_id |-> Str("p1")]}
      [] name = "maps_elevation" ->
            {[locations |-> Arr(<<Obj([latitude |-> Num(40), longitude |-> Num(-74)]),
                                  Obj([latitude |-> Num(41), longitude |-> Num(-75)])>>)]}
      [] name = "maps_distance_matrix" ->
            {[origins |-> Arr(<<Str("A")>>), destinations |-> Arr(<<Str("B")>>),
              mode |-> Str(m)] : m \in Modes}
      [] name = "maps_directions" ->
            {[origin |-> Str("A"), destination |-> Str("B"), mode |-> Str(m)] :
                m \in Modes}
      [] OTHER -> {}

DispatchWide ==
    /\ phase = "serving"
    /\ BagCardinality(invocations) < MaxSolo
    /\ \E name \in Invocable \cap Names(registry) : \E raw \in WideInputs(name) :
          invocations' =
              invocations (+) SetToBag({Envelope(Lookup(registry, name), raw, credential)})
    /\ UNCHANGED <<server, declarations, phase, registry, credential, registryReply>>

UpstreamReplyWide ==
    /\ \E inv \in BagToSet(invocations) :
          /\ inv.pending # NoEndpoint
          /\ \E out \in WideOutcomes(inv.pending.kind) :
                invocations' =
                    (invocations (-) SetToBag({inv}))
                    (+) SetToBag({Resume([inv EXCEPT !.log =
                                            Append(@, [ep |-> inv.pending, out |-> out])],
                                         credential)})
    /\ UNCHANGED <<server, declarations, phase, registry, credential, registryReply>>

NextWide ==
    \/ Register
    \/ ReturnServer
    \/ ListTools
    \/ InvokeUnknown
    \/ DispatchWide
    \/ UpstreamReplyWide

SpecWide == Init /\ [][NextWide]_vars

\* The upstream requests an invocation has issued, in order: the settled
\* ones, then the one in flight.
Requests(inv) ==
    [k \in 1..Len(inv.log) |-> inv.log[k].ep]
    \o (IF inv.pending # NoEndpoint THEN <<inv.pending>> ELSE <<>>)

Failed(out) == out.k # "ok"

\* C11: within an invocation no upstream request is issued twice: every
\* request goes to an endpoint not requested before, after a failed request
\* as after a successful one.
C11_NoRequestIsRepeated ==
    \A inv \in Invs :
        \A i, j \in 1..Len(Requests(inv)) :
            Requests(inv)[i] = Requests(inv)[j] => i = j

C11_Witness ==
    \E inv \in Invs :
        /\ Status(inv) = "Responded"
        /\ Len(inv.log) = 4
        /\ Failed(inv.log[3].out) /\ Failed(inv.log[4].out)

\* C12: a successful get_weather_forecast on coordinates has issued exactly
\* two requests: the point lookup for the coordinates, then the forecast of
\* the grid the lookup returned; its text names each of the first 2*days
\* periods the forecast returned.  While running it has issued the first
\* request, or the first and then the second.
C12_ForecastIsPointsThenForecast ==
    LET Min(a, b) == IF a < b THEN a ELSE b
    IN
    LET
        \* The point each coordinate string tried stands for, as it is printed in
        \* a request path.
        PointOf(location) ==
            CASE location = "40.7128,-74.0060" ->
                    <<"4", "0", ".", "7", "1", "2", "8", ",", "-", "7", "4", ".", "0", "0", "6">>
              [] location = "40.7, -74" -> <<"4", "0", ".", "7", ",", "-", "7", "4">>
    IN
    \A inv \in Invs :
        inv.tool = "get_weather_forecast" /\ inv.handlerCalls = 1 =>
            /\ Len(Requests(inv)) <= 2
            /\ Len(Requests(inv)) >= 1 =>
                  Requests(inv)[1] =
                      Endpoint("points", <<"/points/">> \o PointOf(inv.args.location.v))
            /\ Len(Requests(inv)) = 2 =>
                  /\ inv.log[1].out.k = "ok"
                  /\ LET grid == inv.log[1].out.data.properties IN
                     Requests(inv)[2] =
                         Endpoint("forecast",
                                  <<"/gridpoints/", grid.gridId, "/", ToString(grid.gridX),
                                    ",", ToString(grid.gridY), "/forecast">>)
            /\ Visited(inv, "Succeeded") =>
                  /\ Len(inv.log) = 2
                  /\ LET periods == inv.log[2].out.data.properties.periods IN
                     \A k \in 1..Min(2 * inv.args.days.v, Len(periods)) :
                         includes(inv.result.content[1].text, periods[k].name)

C12_Witness ==
    \E inv \in Invs :
        /\ inv.tool = "get_weather_forecast"
        /\ inv.raw = [location |-> Str(Coordinates), days |-> Num(1)]
        /\ Visited(inv, "Succeeded")
        /\ Len(inv.log[2].out.data.properties.periods) = 3
        /\ includes(inv.result.content[1].text, "Tonight")
        /\ includes(inv.result.content[1].text, "Monday")
        /\ ~includes(inv.result.content[1].text, "Monday Night")

\* C13 (as stated): a request after the first is issued only when the
\* request before it has returned successfully.
C13_NextRequestOnlyAfterSuccess ==
    \A inv \in Invs :
        \A k \in 2..Len(Requests(inv)) : ~Failed(inv.log[k - 1].out)

\* C13 (amended): a request after the first is issued only when the request
\* before it has settled, and it has settled successfully unless it was a
\* station's latest-observation lookup of find_weather_stations, whose
\* failure the handler absorbs before going on to the next station.
C13_NextRequestOnlyAfterSettled ==
    \A inv \in Invs :
        /\ Len(Requests(inv)) \in {Len(inv.log), Len(inv.log) + 1}
        /\ \A k \in 2..Len(Requests(inv)) :
              Failed(inv.log[k - 1].out) =>
                  /\ inv.tool = "find_weather_stations"
                  /\ inv.log[k - 1].ep.kind = "observation"

C13_Witness ==
    \E inv \in Invs :
        /\ inv.tool = "find_weather_stations"
        /\ Len(inv.log) = 3 /\ Failed(inv.log[3].out)
        /\ inv.pending = Endpoint("observation",
                                  <<"/stations/", "KLGA", "/observations/latest">>)

C16_ExtraFieldsAreIgnored ==
    LET Outs(inv) == [k \in 1..Len(inv.log) |-> inv.log[k].out]
    IN
    LET
        \* b is the call a with fields added that the tool's schema does not
        \* declare.
        ExtraFields(a, b) ==
            /\ a.tool = b.tool
            /\ DOMAIN a.raw \subseteq DOMAIN b.raw
            /\ DOMAIN b.raw # DOMAIN a.raw
            /\ \A p \in DOMAIN a.raw : b.raw[p] = a.raw[p]
            /\ (DOMAIN b.raw \ DOMAIN a.raw) \cap DOMAIN SchemaOf(a.tool) = {}
    IN
    \A a, b \in Invs :
        (ExtraFields(a, b) /\ Outs(a) = Outs(b)) =>
            /\ b.trace = a.trace
            /\ Requests(b) = Requests(a)
            /\ b.result = a.result

C16_Witness ==
    LET
        \* b is the call a with fields added that the tool's schema does not
        \* declare.
        ExtraFields(a, b) ==
            /\ a.tool = b.tool
            /\ DOMAIN a.raw \subseteq DOMAIN b.raw
            /\ DOMAIN b.raw # DOMAIN a.raw
            /\ \A p \in DOMAIN a.raw : b.raw[p] = a.raw[p]
            /\ (DOMAIN b.raw \ DOMAIN a.raw) \cap DOMAIN SchemaOf(a.tool) = {}
    IN
    \E a, b \in Invs :
        /\ ExtraFields(a, b)
        /\ "language" \in DOMAIN b.raw
        /\ Visited(a, "Succeeded") /\ Visited(b, "Succeeded")
        /\ a.result = b.result

\* C17: a call giving an enum parameter a value outside the declared
\* literals ("flying" for mode, "catastrophic" for severity) is refused by
\* validation with no request issued and no handler started; a call giving
\* any of the declared literals is validated and its handler started.
C17_EnumValuesAreChecked ==
    LET
        \* The enum parameter of a tool that has one, and its declared literals.
        EnumParameter(tool) ==
            CASE tool \in {"maps_distance_matrix", "maps_directions"} ->
                    [name |-> "mode", literals |-> {"driving", "walking", "bicycling", "transit"}]
              [] tool = "get_weather_alerts" ->
                    [name |-> "severity",
                     literals |-> {"all", "extreme", "severe", "moderate", "minor"}]
              [] OTHER -> [name |-> "", literals |-> {}]
    IN
    LET GivesEnum(inv) ==
            /\ EnumParameter(inv.tool).name # ""
            /\ HasParam(inv.raw, EnumParameter(inv.tool).name, "string")
            /\ ~MissingRequired(inv.tool, inv.raw) /\ ~TypeMismatch(inv.tool, inv.raw)
    IN
    \A inv \in Invs :
        GivesEnum(inv) =>
            IF inv.raw[EnumParameter(inv.tool).name].v \in EnumParameter(inv.tool).literals
            THEN /\ Visited(inv, "Validated")
                 /\ inv.handlerCalls = 1
                 /\ Len(Requests(inv)) >= 1
            ELSE /\ inv.trace = <<"Received", "Validating", "ValidationFailed", "Responded">>
                 /\ FailureShape(inv.result)
                 /\ inv.handlerCalls = 0
                 /\ Requests(inv) = <<>>

C17_Witness ==
    \E inv \in Invs :
        /\ inv.tool = "maps_distance_matrix"
        /\ HasParam(inv.raw, "mode", "string") /\ inv.raw.mode.v = "flying"
        /\ Visited(inv, "ValidationFailed")
        /\ Requests(inv) = <<>>

\* C18: a weather invocation that failed on a non-2xx response reports a
\* message chosen by the status: 404 gives the not-found message, every
\* status from 500 to 599 gives the service-unavailable message, any other
\* status gives the generic message carrying the status code.
C18_StatusSpecificMessage ==
    LET LastOutcome(inv) == inv.log[Len(inv.log)].out
    IN
    LET
        \* The message of a failure result: the text after "Error: ".
        MessageOf(result) == Tail(result.content[1].text)
    IN
    LET
        \* A weather invocation whose handler failed on the response to its last
        \* request.
        FailedOnLastRequest(inv) ==
            /\ inv.tool \in WeatherTools
            /\ Visited(inv, "Failed")
            /\ Len(inv.log) >= 1
            /\ Failed(LastOutcome(inv))
    IN
    LET NotFoundMessage     == <<"Location not found or no data available">>
    IN
    LET UnavailableMessage  == <<"Weather service temporarily unavailable">>
    IN
    \A inv \in Invs :
        (FailedOnLastRequest(inv) /\ LastOutcome(inv).k = "status") =>
            LET code == LastOutcome(inv).code
                msg  == MessageOf(inv.result)
            IN /\ FailureShape(inv.result)
               /\ CASE code = 404 -> msg = NotFoundMessage
                    [] code \in 500..599 -> msg = UnavailableMessage
                    [] OTHER -> /\ msg[1] = "Weather API error: "
                                /\ includes(msg, ToString(code))

\* C19: a weather invocation that failed because the request could not
\* reach the upstream reports the connectivity message, and one that failed
\* on an HTTP status never reports the connectivity message.
C19_ConnectivityMessageOnlyForTransport ==
    LET LastOutcome(inv) == inv.log[Len(inv.log)].out
    IN
    LET
        \* The message of a failure result: the text after "Error: ".
        MessageOf(result) == Tail(result.content[1].text)
    IN
    LET
        \* A weather invocation whose handler failed on the response to its last
        \* request.
        FailedOnLastRequest(inv) ==
            /\ inv.tool \in WeatherTools
            /\ Visited(inv, "Failed")
            /\ Len(inv.log) >= 1
            /\ Failed(LastOutcome(inv))
    IN
    LET ConnectivityMessage ==
            <<"Unable to connect to weather service. Please check your internet connection.">>
    IN
    \A inv \in Invs :
        FailedOnLastRequest(inv) =>
            /\ FailureShape(inv.result)
            /\ LastOutcome(inv).k = "network" =>
                    MessageOf(inv.result) = ConnectivityMessage
            /\ LastOutcome(inv).k = "status" =>
                    MessageOf(inv.result) # ConnectivityMessage

\* C20: whenever a sub-call of a handler raises, whatever the tool and the
\* value raised, the invocation returns the failure result, whose message is
\* the raised value's message if it has one and a placeholder otherwise.
C20_FailureMessageIsTheRaisedMessage ==
    LET
        \* The message of a failure result: the text after "Error: ".
        MessageOf(result) == Tail(result.content[1].text)
    IN
    LET
        \* The handler's try block, before its catch (the maps handlers have none).
        TryBlock(name, args, key, log) ==
            CASE name = "get_current_weather"   -> get_current_weather_body(args, log)
              [] name = "get_weather_forecast"  -> get_weather_forecast_body(args, log)
              [] name = "get_hourly_forecast"   -> get_hourly_forecast_body(args, log)
              [] name = "get_weather_alerts"    -> get_weather_alerts_body(args, log)
              [] name = "find_weather_stations" -> find_weather_stations_body(args, log)
              [] name = "search_repositories"   -> search_repositories_body(args, log)
              [] name = "list_commits"          -> list_commits_body(args, log)
              [] name = "get_tag"               -> get_tag_body(args, log)
              [] name = "push_files"            -> push_files_body(args, log)
              [] OTHER                          -> Handler(name, args, key, log)
    IN
    LET
        \* The value raised inside the handler of an invocation, if any.
        RaisedIn(inv) == TryBlock(inv.tool, inv.args, credential, inv.log)
    IN
    LET Placeholders == {<<"Unknown error">>, <<"undefined">>}
    IN
    \A inv \in Invs :
        (inv.handlerCalls = 1 /\ inv.pending = NoEndpoint
            /\ RaisedIn(inv).op = "throw") =>
            /\ Status(inv) = "Responded"
            /\ FailureShape(inv.result)
            /\ IF RaisedIn(inv).err.isError
               THEN MessageOf(inv.result) = RaisedIn(inv).err.message
               ELSE MessageOf(inv.result) \in Placeholders

\* ------------------------------------------------------------------------
\* Tool by tool.
\* ------------------------------------------------------------------------
TextOf(inv) == inv.result.content[1].text

\* C21: in find_weather_stations a failed observation lookup is swallowed:
\* the invocation never fails because of it, the next station is looked up,
\* and the result is the success text naming every station, with
\* "Latest Report: Not available" once for each failed lookup.
C21_FailedObservationIsSwallowed ==
    LET Count(seq, piece) == Cardinality({k \in 1..Len(seq) : seq[k] = piece})
    IN
    LET
        \* The stations listed to a find_weather_stations invocation.
        StationsListed(inv) ==
            IF Len(inv.log) >= 2 /\ inv.log[1].out.k = "ok" /\ inv.log[2].out.k = "ok"
            THEN inv.log[2].out.data.features ELSE <<>>
    IN
    LET
        \* The observation lookups of a find_weather_stations invocation that failed.
        FailedLookups(inv) == {k \in 3..Len(inv.log) : Failed(inv.log[k].out)}
    IN
    \A inv \in Invs :
        (inv.tool = "find_weather_stations" /\ FailedLookups(inv) # {}) =>
            LET stations == StationsListed(inv) IN
            /\ ~Visited(inv, "Failed")
            /\ IF Len(inv.log) < 2 + Len(stations)
               THEN inv.pending = ObservationEndpoint(
                        stations[Len(inv.log) - 1].properties.stationIdentifier)
               ELSE /\ inv.trace = <<"Received", "Validating", "Validated", "Executing",
                                     "Succeeded", "Responded">>
                    /\ SingleText(inv.result)
                    /\ ~StartsWithError(inv.result)
                    /\ Count(TextOf(inv), "**Latest Report:** Not available\n")
                          = Cardinality(FailedLookups(inv))
                    /\ \A k \in 1..Len(stations) :
                          Count(TextOf(inv), stations[k].properties.stationIdentifier) = 2

C21_Witness ==
    LET Count(seq, piece) == Cardinality({k \in 1..Len(seq) : seq[k] = piece})
    IN
    \E inv \in Invs :
        /\ inv.tool = "find_weather_stations"
        /\ Len(inv.log) = 4
        /\ Failed(inv.log[3].out)
        /\ ~Failed(inv.log[4].out)
        /\ Status(inv) = "Responded"
        /\ Visited(inv, "Succeeded")
        /\ Count(TextOf(inv), "**Latest Report:** Not available\n") = 1

\* C22: every reply to list is the (name, description, inputSchema) of the
\* registered tools in the order the construction routine registered them,
\* each name once, with no handler in it, whatever invocations were made
\* before it: it is always the same sequence.
C22_ListIsTheRegistrationsInOrder ==
    LET
        \* What a caller may see of a tool definition.
        Triple(def) ==
            [name |-> def.name, description |-> def.description,
             inputSchema |-> def.inputSchema]
    IN
    registryReply.op = "list" =>
        LET tools == registryReply.tools IN
        /\ Len(tools) = Len(declarations)
        /\ \A k \in 1..Len(tools) :
              /\ tools[k] = Triple(declarations[k])
              /\ DOMAIN tools[k] = {"name", "description", "inputSchema"}
        /\ \A j, k \in 1..Len(tools) : tools[j].name = tools[k].name => j = k

C22_Witness ==
    /\ registryReply.op = "list"
    /\ Len(registryReply.tools) = 32
    /\ \E inv \in Invs : Status(inv) = "Responded" /\ Visited(inv, "Failed")
    /\ \E inv \in Invs : inv.pending # NoEndpoint

\* ------------------------------------------------------------------------
\* Start-up with a configuration that may lack the credential.
\* ------------------------------------------------------------------------
\* config.apiKey or config.githubPersonalAccessToken of a configuration
\* that does not have the field.
MissingCredential == "undefined"

\* The configuration schema a server exports for its start-up: the maps
\* server requires apiKey; the github server passes no schema and the
\* weather server takes no configuration.
configSchema(s) ==
    CASE s = "maps" -> {"apiKey"}
      [] OTHER      -> {}

InitConfig ==
    LET Configurations(s) ==
            IF s = "weather" THEN {ConfigCredential(s)}
            ELSE {ConfigCredential(s), MissingCredential}
    IN
    /\ server \in Servers
    /\ declarations = [k \in 1..Len(createStatelessServer(server)) |->
                          ToolDefinition(createStatelessServer(server)[k])]
    /\ phase = "starting"
    /\ registry = <<>>
    /\ credential \in Configurations(server)
    /\ invocations = EmptyBag
    /\ registryReply = NoReply

\* The configuration is checked against the exported schema, if there is
\* one, and the construction routine is entered.
StartServer ==
    /\ phase = "starting"
    /\ IF configSchema(server) # {} /\ credential = MissingCredential
       THEN /\ phase' = "aborted"
            /\ registryReply' =
                  [NoReply EXCEPT !.op = "start",
                                  !.result = Raised(Error(<<"Invalid configuration">>))]
       ELSE /\ phase' = "constructing"
            /\ UNCHANGED registryReply
    /\ UNCHANGED <<server, declarations, registry, credential, invocations>>

NextConfig ==
    \/ StartServer
    \/ Register
    \/ ReturnServer
    \/ ListTools
    \/ InvokeUnknown
    \/ DispatchWide
    \/ UpstreamReplyWide

SpecConfig == InitConfig /\ [][NextConfig]_vars

\* C23: a server started without its required credential aborts at
\* start-up: it registers no tool, never serves and never dispatches an
\* invocation, so no invocation result can come from the missing
\* credential.
C23_MissingCredentialAbortsStartup ==
    credential = MissingCredential =>
        /\ phase \in {"starting", "aborted"}
        /\ registry = <<>>
        /\ invocations = EmptyBag

\* The pieces of a text that follow a given piece, in order.
RECURSIVE Following(_, _)
Following(text, marker) ==
    IF Len(text) < 2 THEN <<>>
    ELSE (IF text[1] = marker THEN <<text[2]>> ELSE <<>>)
         \o Following(Tail(text), marker)

\* C24: get_weather_alerts reports, in upstream order, every alert when the
\* severity is "all" (also by default) and otherwise exactly the alerts
\* whose severity is the filter up to letter case; when none remains the
\* result is the success text "No active weather alerts found for ...".
C24_AlertsAreFilteredBySeverity ==
    LET
        \* The spellings of a severity filter that differ in letter case only.
        Spellings(filter) ==
            CASE filter = "extreme"  -> {"extreme", "Extreme", "EXTREME"}
              [] filter = "severe"   -> {"severe", "Severe", "SEVERE"}
              [] filter = "moderate" -> {"moderate", "Moderate", "MODERATE"}
              [] filter = "minor"    -> {"minor", "Minor", "MINOR"}
    IN
    LET
        \* The severities of the alerts the upstream returned, in upstream order.
        UpstreamSeverities(inv) ==
            LET features == inv.log[1].out.data.features IN
            [k \in 1..Len(features) |-> features[k].properties.severity]
    IN
    \A inv \in Invs :
        (inv.tool = "get_weather_alerts" /\ Len(inv.log) = 1
            /\ inv.log[1].out.k = "ok") =>
            LET filter   == IF HasParam(inv.raw, "severity", "string")
                            THEN inv.raw.severity.v ELSE "all"
                Wanted(s) == filter = "all" \/ s \in Spellings(filter)
                expected == SelectSeq(UpstreamSeverities(inv), Wanted)
            IN /\ inv.trace = <<"Received", "Validating", "Validated", "Executing",
                                "Succeeded", "Responded">>
               /\ SingleText(inv.result)
               /\ IF expected = <<>>
                  THEN TextOf(inv) = <<"# Weather Alerts\n\nNo active weather alerts found for ",
                                       inv.raw.location.v, ".">>
                  ELSE /\ Following(TextOf(inv), "**Severity:** ") = expected
                       /\ Following(TextOf(inv), "Found ") = <<ToString(Len(expected))>>

C24_Witness ==
    LET
        \* The severities of the alerts the upstream returned, in upstream order.
        UpstreamSeverities(inv) ==
            LET features == inv.log[1].out.data.features IN
            [k \in 1..Len(features) |-> features[k].properties.severity]
    IN
    \E inv \in Invs :
        /\ inv.tool = "get_weather_alerts"
        /\ HasParam(inv.raw, "severity", "string") /\ inv.raw.severity.v = "moderate"
        /\ Len(inv.log) = 1 /\ inv.log[1].out.k = "ok"
        /\ UpstreamSeverities(inv) = <<"Moderate", "Extreme", "Unknown", "Moderate">>
        /\ Following(TextOf(inv), "**Severity:** ") = <<"Moderate", "Moderate">>

\* C25: a validated get_weather_alerts invocation issues exactly one
\* request, chosen by the location: the state's area alerts for two
\* uppercase letters, the point's alerts for "latitude,longitude", and the
\* unfiltered active alerts for any other string, which is not a failure.
C25_AlertsEndpointFollowsLocation ==
    LET
        \* The alerts request the claim expects for each location tried.
        ExpectedAlertsUrl(location) ==
            CASE location = "CA" -> <<"/alerts/active", "/area/", "CA">>
              [] location = "40.7128,-74.0060" ->
                    <<"/alerts/active", "?point=", "4", "0", ".", "7", "1", "2", "8", ",",
                      "-", "7", "4", ".", "0", "0", "6">>
              [] location = "40.7, -74" ->
                    <<"/alerts/active", "?point=", "4", "0", ".", "7", ",", "-", "7", "4">>
              [] OTHER -> <<"/alerts/active">>
    IN
    \A inv \in Invs :
        (inv.tool = "get_weather_alerts" /\ inv.handlerCalls = 1) =>
            /\ Len(Requests(inv)) = 1
            /\ Requests(inv)[1].url = ExpectedAlertsUrl(inv.raw.location.v)
            /\ (Len(inv.log) = 1 /\ inv.log[1].out.k = "ok") =>
                    (Status(inv) = "Responded" /\ Visited(inv, "Succeeded"))

C25_Witness ==
    \E inv \in Invs :
        /\ inv.tool = "get_weather_alerts"
        /\ inv.raw.location.v = "New York, NY"
        /\ Len(inv.log) = 1
        /\ inv.log[1].ep.url = <<"/alerts/active">>
        /\ Visited(inv, "Succeeded")

\* C26: for every validated days value get_weather_forecast reports the
\* first 2*days periods of the upstream response, in upstream order and
\* never more than 2*days; for every validated hours value
\* get_hourly_forecast reports the first hours periods and never more.
C26_AtMostTheRequestedPeriods ==
    LET
        \* The names of the periods the upstream returned to the second request.
        UpstreamPeriods(inv) ==
            LET periods == inv.log[2].out.data.properties.periods IN
            [k \in 1..Len(periods) |-> periods[k].name]
    IN
    LET
        \* The first n elements of a sequence, all of it if it is shorter, none of
        \* it if n is not positive.
        FirstN(seq, n) == SubSeq(seq, 1, IF n > Len(seq) THEN Len(seq) ELSE n)
    IN
    LET Answered(inv, tool) ==
            /\ inv.tool = tool
            /\ Len(inv.log) = 2
            /\ inv.log[1].out.k = "ok" /\ inv.log[2].out.k = "ok"
    IN
    \A inv \in Invs :
        /\ Answered(inv, "get_weather_forecast") =>
              LET reported == Following(TextOf(inv), "## ") IN
              /\ Len(reported) <= 2 * inv.args.days.v
              /\ reported = FirstN(UpstreamPeriods(inv), 2 * inv.args.days.v)
        /\ Answered(inv, "get_hourly_forecast") =>
              LET reported == Following(TextOf(inv), "toLocaleTimeString(") IN
              /\ Len(reported) <= inv.args.hours.v
              /\ reported = FirstN(UpstreamPeriods(inv), inv.args.hours.v)

\* ------------------------------------------------------------------------
\* push_files against one branch of one repository.  The repository is
\* what the requests answered so far have made of it: the commits created
\* and the updates of the branch reference that went through.
\* ------------------------------------------------------------------------
MaxPush == 2

\* The requests of a given kind that were answered OK, over all invocations.
Answers(kind) ==
    UNION {{inv.log[k] : k \in {j \in 1..Len(inv.log) :
                                   inv.log[j].ep.kind = kind /\ inv.log[j].out.k = "ok"}}
           : inv \in Invs}

Field(ep, name) == Following(ep.url, name)[1]

\* The parent of a commit the repository holds.
ParentOf(sha) ==
    LET InitialHead == "c0"
    IN
    IF sha = InitialHead THEN ""
    ELSE Field((CHOOSE a \in Answers("git.createCommit") : a.out.data.sha = sha).ep,
               "parents=")

\* The head of the branch: the commit it was moved to that no later move
\* started from.
BranchHead ==
    LET InitialHead == "c0"
    IN
    LET
        \* The commits the branch reference was moved to.
        Moved == {Field(a.ep, "sha=") : a \in Answers("git.updateRef")}
    IN
    IF Moved = {} THEN InitialHead
    ELSE CHOOSE s \in Moved : \A t \in Moved : ParentOf(t) # s

\* What the repository answers to a request: a refusal of a move that is
\* not a fast-forward unless forced, else the object asked for.
Repository(ep) ==
    LET CommitNames == <<"c1", "c2", "c3", "c4">>
    IN
    CASE ep.kind = "git.getRef"       -> Ok([object |-> [sha |-> BranchHead]])
      [] ep.kind = "git.getCommit"    -> Ok([tree |-> [sha |-> "t0"]])
      [] ep.kind = "git.createTree"   -> Ok([sha |-> "t1"])
      [] ep.kind = "git.createCommit" ->
            Ok([sha |-> CommitNames[Cardinality(Answers("git.createCommit")) + 1]])
      [] ep.kind = "git.updateRef"    ->
            IF Field(ep, "force=") = "false" /\ ParentOf(Field(ep, "sha=")) # BranchHead
            THEN HttpStatus(422)
            ELSE Ok(Field(ep, "sha="))

DispatchPush ==
    LET PushInputs ==
            {[owner |-> Str("o"), repo |-> Str("r"), branch |-> Str("main"),
              files |-> Arr(<<Obj([path |-> Str("a.txt"), content |-> Str(m)])>>),
              message |-> Str(m)] : m \in {"one", "two"}}
    IN
    /\ phase = "serving"
    /\ server = "github"
    /\ BagCardinality(invocations) < MaxPush
    /\ \E raw \in PushInputs :
          invocations' =
              invocations (+) SetToBag({Envelope(Lookup(registry, "push_files"), raw,
                                                 credential)})
    /\ UNCHANGED <<server, declarations, phase, registry, credential, registryReply>>

\* The repository answers the request an invocation waits on, or the
\* request fails.
UpstreamReplyPush ==
    /\ \E inv \in BagToSet(invocations) :
          /\ inv.pending # NoEndpoint
          /\ \E out \in {Repository(inv.pending), HttpStatus(404), NetworkFailure} :
                invocations' =
                    (invocations (-) SetToBag({inv}))
                    (+) SetToBag({Resume([inv EXCEPT !.log =
                                            Append(@, [ep |-> inv.pending, out |-> out])],
                                         credential)})
    /\ UNCHANGED <<server, declarations, phase, registry, credential, registryReply>>

NextPush ==
    \/ Register
    \/ ReturnServer
    \/ ListTools
    \/ InvokeUnknown
    \/ DispatchPush
    \/ UpstreamReplyPush

SpecPush == Init /\ [][NextPush]_vars

\* C27: push_files issues getRef, getCommit, createTree, createCommit,
\* updateRef in this order and stops at the first that fails; createCommit
\* names as only parent the head getRef read and the tree createTree made;
\* updateRef carries the commit createCommit made and force=false; and of
\* the invocations that read the same head at most one moves the branch,
\* the others fail, so no commit the branch was moved to is overwritten.
C27_PushFilesNeverOverwrites ==
    LET IsPrefix(s, t) == Len(s) <= Len(t) /\ s = SubSeq(t, 1, Len(s))
    IN
    LET Count(seq, piece) == Cardinality({k \in 1..Len(seq) : seq[k] = piece})
    IN
    LET PushOrder == <<"git.getRef", "git.getCommit", "git.createTree", "git.createCommit",
                       "git.updateRef">>
    IN
    LET Kinds(inv) == [k \in 1..Len(Requests(inv)) |-> Requests(inv)[k].kind]
    IN
    /\ \A inv \in Invs :
          inv.tool = "push_files" =>
              /\ IsPrefix(Kinds(inv), PushOrder)
              /\ \A k \in 1..Len(inv.log) :
                    Failed(inv.log[k].out) =>
                        /\ k = Len(inv.log)
                        /\ inv.pending = NoEndpoint
                        /\ Status(inv) = "Responded"
                        /\ FailureShape(inv.result)
              /\ Len(Requests(inv)) >= 4 =>
                    /\ Field(Requests(inv)[4], "parents=") = inv.log[1].out.data.object.sha
                    /\ Count(Requests(inv)[4].url, "parents=") = 1
                    /\ Field(Requests(inv)[4], "tree=") = inv.log[3].out.data.sha
              /\ Len(Requests(inv)) = 5 =>
                    /\ Field(Requests(inv)[5], "sha=") = inv.log[4].out.data.sha
                    /\ Field(Requests(inv)[5], "force=") = "false"
    /\ \A a, b \in Answers("git.updateRef") :
          ParentOf(Field(a.ep, "sha=")) = ParentOf(Field(b.ep, "sha=")) => a = b

C27_Witness ==
    \E won, lost \in Invs :
        /\ won.tool = "push_files" /\ lost.tool = "push_files"
        /\ Len(won.log) = 5 /\ Len(lost.log) = 5
        /\ won.log[1].out.data.object.sha = lost.log[1].out.data.object.sha
        /\ won.log[5].out.k = "ok" /\ Visited(won, "Succeeded")
        /\ lost.log[5].out = HttpStatus(422)
        /\ Status(lost) = "Responded" /\ Visited(lost, "Failed")
        /\ BranchHead = won.log[4].out.data.sha

\* C28: get_current_weather asks for the point, then for the stations of
\* the grid the point lookup returned, then for the latest observation of
\* the first station listed; when the station list is missing or empty it
\* returns "Error: No weather stations found for this location" and asks
\* for no observation.
C28_CurrentWeatherCallOrder ==
    LET IsPrefix(s, t) == Len(s) <= Len(t) /\ s = SubSeq(t, 1, Len(s))
    IN
    LET
        \* The point each coordinate string tried stands for, as it is printed in
        \* a request path.
        PointOf(location) ==
            CASE location = "40.7128,-74.0060" ->
                    <<"4", "0", ".", "7", "1", "2", "8", ",", "-", "7", "4", ".", "0", "0", "6">>
              [] location = "40.7, -74" -> <<"4", "0", ".", "7", ",", "-", "7", "4">>
    IN
    LET Kinds(inv) == [k \in 1..Len(Requests(inv)) |-> Requests(inv)[k].kind]
    IN
    \A inv \in Invs :
        (inv.tool = "get_current_weather" /\ Len(Requests(inv)) >= 1) =>
            /\ IsPrefix(Kinds(inv), <<"points", "stations", "observation">>)
            /\ Requests(inv)[1].url = <<"/points/">> \o PointOf(inv.args.location.v)
            /\ Len(Requests(inv)) >= 2 =>
                  /\ inv.log[1].out.k = "ok"
                  /\ LET grid == inv.log[1].out.data.properties IN
                     Requests(inv)[2].url =
                         <<"/gridpoints/", grid.gridId, "/", ToString(grid.gridX), ",",
                           ToString(grid.gridY), "/stations">>
            /\ Len(Requests(inv)) = 3 =>
                  /\ inv.log[2].out.k = "ok"
                  /\ Len(inv.log[2].out.data.features) > 0
                  /\ Requests(inv)[3].url =
                         <<"/stations/",
                           inv.log[2].out.data.features[1].properties.stationIdentifier,
                           "/observations/latest">>
            /\ (Len(inv.log) >= 2 /\ inv.log[2].out.k = "ok"
                    /\ (~inv.log[2].out.data.hasFeatures
                            \/ Len(inv.log[2].out.data.features) = 0)) =>
                  /\ Len(Requests(inv)) = 2
                  /\ Status(inv) = "Responded"
                  /\ inv.result = Failure(<<"No weather stations found for this location">>)

C28_Witness ==
    \E inv \in Invs :
        /\ inv.tool = "get_current_weather"
        /\ Len(inv.log) = 2
        /\ inv.log[2].out = Ok(StationsBody(<<>>))
        /\ inv.pending = NoEndpoint
        /\ TextOf(inv) = <<"Error: ", "No weather stations found for this location">>

\* C29: for the four tools that take coordinates, a location that is not
\* in "latitude,longitude" format gives a failure result naming the
\* location with no request issued; a location in that format lets the
\* handler issue its first request.
C29_UnparsableLocationFailsBeforeAnyRequest ==
    LET
        \* The tools that take coordinates only.
        CoordinateTools == {"get_current_weather", "get_weather_forecast", "get_hourly_forecast",
                            "find_weather_stations"}
    IN
    LET
        \* The location strings tried that are in "latitude,longitude" format.
        InCoordinateFormat == {"40.7128,-74.0060", "40.7, -74"}
    IN
    \A inv \in Invs :
        (inv.tool \in CoordinateTools /\ inv.handlerCalls = 1) =>
            IF inv.args.location.v \in InCoordinateFormat
            THEN /\ Len(Requests(inv)) >= 1
                 /\ Requests(inv)[1].kind = "points"
            ELSE /\ Requests(inv) = <<>>
                 /\ inv.trace = <<"Received", "Validating", "Validated", "Executing",
                                  "Failed", "Responded">>
                 /\ FailureShape(inv.result)
                 /\ includes(TextOf(inv), inv.args.location.v)

C29_Witness ==
    \E inv \in Invs :
        /\ inv.tool = "find_weather_stations"
        /\ inv.handlerCalls = 1
        /\ inv.args.location.v = "CA"
        /\ Requests(inv) = <<>>
        /\ Status(inv) = "Responded"
        /\ includes(TextOf(inv), "CA")

\* C30: every started maps invocation issues exactly one request; when the
\* response body has a status other than "OK" the invocation fails, the
\* failure's message ends with the body's error_message if it has one and
\* with its status otherwise, and nothing is returned as a success.
C30_NonOkStatusIsAFailure ==
    LET
        \* The message of a failure result: the text after "Error: ".
        MessageOf(result) == Tail(result.content[1].text)
    IN
    LET MapsTools == {"maps_geocode", "maps_reverse_geocode", "maps_search_places",
                      "maps_place_details", "maps_distance_matrix", "maps_elevation",
                      "maps_directions"}
    IN
    LET
        \* The message of a failed invocation, raised or returned.
        FailureMessage(inv) ==
            IF inv.result.kind = "raised" THEN inv.result.err.message ELSE MessageOf(inv.result)
    IN
    \A inv \in Invs :
        (inv.tool \in MapsTools /\ inv.handlerCalls = 1) =>
            /\ Len(Requests(inv)) = 1
            /\ (Len(inv.log) = 1 /\ inv.log[1].out.k = "ok"
                    /\ inv.log[1].out.data.status # "OK") =>
                  LET data == inv.log[1].out.data
                      msg  == FailureMessage(inv)
                  IN /\ inv.pending = NoEndpoint
                     /\ Visited(inv, "Failed")
                     /\ ~Visited(inv, "Succeeded")
                     /\ inv.result.kind = "content" => StartsWithError(inv.result)
                     /\ Len(msg) = 3
                     /\ msg[2] = " failed: "
                     /\ msg[3] = IF data.error_message # "" THEN data.error_message
                                 ELSE data.status

C30_Witness ==
    LET
        \* The message of a failure result: the text after "Error: ".
        MessageOf(result) == Tail(result.content[1].text)
    IN
    LET
        \* The message of a failed invocation, raised or returned.
        FailureMessage(inv) ==
            IF inv.result.kind = "raised" THEN inv.result.err.message ELSE MessageOf(inv.result)
    IN
    \E inv \in Invs :
        /\ inv.tool = "maps_directions"
        /\ Len(inv.log) = 1
        /\ inv.log[1].out = Ok(MapsBody("REQUEST_DENIED", "The provided API key is invalid."))
        /\ Visited(inv, "Failed")
        /\ FailureMessage(inv) = <<"Directions request", " failed: ",
                                   "The provided API key is invalid.">>
====
